---------------------------- MODULE Spec2Model ----------------------------
(***************************************************************************)
(* A model of src/daily_report_generator.py (DailyReportGenerator, main):  *)
(* the dimension key builder and exclusion filter (process_raw_data), the  *)
(* aggregator (_aggregate_data_impl), the temporal rollup builders         *)
(* (create_table_data, create_supervisor_report) and the change-rate       *)
(* formatter (format_change_rate).                                         *)
(*                                                                         *)
(* Conventions.                                                            *)
(*  - Text taken apart by the code (hierarchy levels, dimension keys) is a *)
(*    sequence of one-character strings; text that is only produced and    *)
(*    compared (labels, formatted numbers) is a TLA+ string.               *)
(*  - A number is an integer count of thousandths ("mills"): 1500 is 1.5.  *)
(*    Sums are exact; of the floating-point representation only its effect *)
(*    on '.1f' at the midpoint between two tenths is modelled (TiesAbove). *)
(*  - A date is <<year, month, day>>; BadDate is a text pd.to_datetime     *)
(*    cannot parse.                                                        *)
(***************************************************************************)
EXTENDS Integers, Sequences, FiniteSets, TLC

VARIABLES
    pc,             \* position in main(): which stage has run
    df,             \* the raw records read from raw_data.csv
    processed_df,   \* what process_raw_data returned
    aggregated_df,  \* what aggregate_data returned
    bd_tables,      \* dimension -> table_data of create_table_data
    team_tables,    \* supervisor -> table_data of create_supervisor_report
    run,            \* 1 on the first run of the pipeline, 2 on the re-run
    first_out,      \* the outputs of the first run, kept for comparison
    current,        \* format_change_rate: argument current
    previous,       \* format_change_rate: argument previous
    change_text,    \* format_change_rate: the returned text
    data,           \* create_supervisors_daily_report: argument data
    comparison,     \* create_supervisors_daily_report: what it built
    month_call,     \* is_month_complete: its arguments and what it returned
    kol_aggregated_df,  \* what aggregate_data_by_kol returned
    agent_datas,    \* dimension -> the caller's agent_data after create_bd_report
    supervisor_dfs  \* team -> main's supervisor_df after create_supervisor_report

vars == <<pc, df, processed_df, aggregated_df, bd_tables, team_tables,
          run, first_out, current, previous, change_text, data, comparison,
          month_call, kol_aggregated_df, agent_datas, supervisor_dfs>>

(***************************************************************************)
(* Bounds of the model.                                                    *)
(***************************************************************************)
MaxLevelLen == 2    \* longest enumerated hierarchy level text
MaxRecs == 2        \* most raw records of one input of the pipeline
MaxExtra == 2       \* most free rows added to the month blocks of a rollup input
MaxRateVal == 12    \* largest |value| enumerated for format_change_rate
MaxCompareRows == 2 \* most rows of a frame given to the comparator
MaxRepeat == 2      \* most further rows on one day given to is_month_complete
MaxColumnRows == 3  \* most rows of an aggregated frame that lacks a column
MaxKolRecs == 3     \* most raw records given to the two aggregators
MaxSliceRows == 3   \* most aggregated rows shared by the interleaved rollups

(***************************************************************************)
(* Text as sequences of characters.                                        *)
(***************************************************************************)
Empty == <<>>
Sep == <<" ", "-", " ">>                \* ' - '
DoubleSep == <<" ", "-", " ", " ", "-", " ">>   \* ' -  - '
\* The exclusion marker (two CJK characters in the source, written here
\* with two ASCII stand-ins "L" and "Z").
Marker == <<"L", "Z">>
NanText == <<"n", "a", "n">>
ZeroText == <<"0">>
Alice == <<"A", "l", "i", "c", "e">>
Bob == <<"B", "o", "b">>

\* Code-point order of the characters used.
CharRank(c) ==
    CASE c = " " -> 32
      [] c = "-" -> 45
      [] c = "0" -> 48
      [] c = "1" -> 49
      [] c = "2" -> 50
      [] c = "A" -> 65
      [] c = "B" -> 66
      [] c = "C" -> 67
      [] c = "L" -> 76
      [] c = "S" -> 83
      [] c = "T" -> 84
      [] c = "Z" -> 90
      [] c = "a" -> 97
      [] c = "b" -> 98
      [] c = "c" -> 99
      [] c = "e" -> 101
      [] c = "i" -> 105
      [] c = "k" -> 107
      [] c = "l" -> 108
      [] c = "n" -> 110
      [] c = "o" -> 111
      [] c = "x" -> 120
      [] OTHER -> 127

StartsWith(s, p) == Len(s) >= Len(p) /\ SubSeq(s, 1, Len(p)) = p
EndsWith(s, p) == Len(s) >= Len(p) /\ SubSeq(s, Len(s) - Len(p) + 1, Len(s)) = p
MatchAt(s, p, i) == i + Len(p) - 1 <= Len(s) /\ SubSeq(s, i, i + Len(p) - 1) = p
\* str.contains(p): p occurs somewhere in s.
Contains(s, p) == \E i \in 1..(Len(s) + 1) : MatchAt(s, p, i)

\* str.strip(): leading and trailing whitespace removed.
RECURSIVE LStrip(_)
LStrip(s) == IF s # <<>> /\ Head(s) = " " THEN LStrip(Tail(s)) ELSE s
RECURSIVE RStrip(_)
RStrip(s) ==
    IF s # <<>> /\ s[Len(s)] = " " THEN RStrip(SubSeq(s, 1, Len(s) - 1)) ELSE s
Strip(s) == RStrip(LStrip(s))

\* str.replace(p, r): every non-overlapping occurrence, scanning left to right.
RECURSIVE ReplaceAll(_, _, _)
ReplaceAll(s, p, r) ==
    IF s = <<>> THEN <<>>
    ELSE IF MatchAt(s, p, 1)
         THEN r \o ReplaceAll(SubSeq(s, Len(p) + 1, Len(s)), p, r)
         ELSE <<Head(s)>> \o ReplaceAll(Tail(s), p, r)

\* str.split(p).
RECURSIVE SplitFrom(_, _, _)
SplitFrom(s, p, acc) ==
    IF s = <<>> THEN <<acc>>
    ELSE IF MatchAt(s, p, 1)
         THEN <<acc>> \o SplitFrom(SubSeq(s, Len(p) + 1, Len(s)), p, <<>>)
         ELSE SplitFrom(Tail(s), p, Append(acc, Head(s)))
Split(s, p) == SplitFrom(s, p, <<>>)

\* Lexicographic order of texts by code point.
RECURSIVE StrLess(_, _)
StrLess(a, b) ==
    IF b = <<>> THEN FALSE
    ELSE IF a = <<>> THEN TRUE
    ELSE IF Head(a) = Head(b) THEN StrLess(Tail(a), Tail(b))
    ELSE CharRank(Head(a)) < CharRank(Head(b))

(***************************************************************************)
(* process_raw_data: the dimension key (lines 100-106).                    *)
(***************************************************************************)
\* astype(str).replace('nan', '').replace('0', ''): Series.replace swaps
\* whole values, not substrings.
canonical_level(level) ==
    IF level = NanText \/ level = ZeroText THEN Empty ELSE level

\* Lines 103-106, in the order the code applies them: join, strip, collapse
\* a doubled separator, drop a leading ' - ' (regex '^ - '), drop a trailing
\* ' - ' (regex ' - $').
dimension_key(sup, bd) ==
    LET joined == sup \o Sep \o bd
        stripped == Strip(joined)
        collapsed == ReplaceAll(stripped, DoubleSep, Sep)
        no_lead == IF StartsWith(collapsed, Sep)
                   THEN SubSeq(collapsed, Len(Sep) + 1, Len(collapsed))
                   ELSE collapsed
        no_trail == IF EndsWith(no_lead, Sep)
                    THEN SubSeq(no_lead, 1, Len(no_lead) - Len(Sep))
                    ELSE no_lead
    IN  no_trail

(***************************************************************************)
(* Numbers and their display (format_number, lines 70-81).                 *)
(***************************************************************************)
Digits == <<"0", "1", "2", "3", "4", "5", "6", "7", "8", "9">>
D1(n) == Digits[n + 1]
D2(n) == D1(n \div 10) \o D1(n % 10)
D3(n) == D1(n \div 100) \o D2(n % 100)
D4(n) == D2(n \div 100) \o D2(n % 100)

Abs(n) == IF n < 0 THEN -n ELSE n

\* A natural number without leading zeros, no grouping.
RECURSIVE NatText(_)
NatText(n) == IF n < 10 THEN D1(n) ELSE NatText(n \div 10) \o D1(n % 10)

\* A natural number with thousands separators, as '{:,}' prints it.
RECURSIVE GroupedText(_)
GroupedText(n) ==
    IF n < 1000 THEN NatText(n)
    ELSE GroupedText(n \div 1000) \o "," \o D3(n % 1000)

\* round-half-even of a non-negative count q of units of size unit.
RoundHalfEven(q, unit) ==
    LET lo == q \div unit
        rem == q % unit
    IN  IF 2 * rem < unit THEN lo
        ELSE IF 2 * rem > unit THEN lo + 1
        ELSE IF lo % 2 = 0 THEN lo ELSE lo + 1

\* f'{value:,.0f}': rounded to a whole number, grouped; a negative value
\* that rounds to zero prints '-0'.
Fixed0(value) ==
    (IF value < 0 THEN "-" ELSE "") \o GroupedText(RoundHalfEven(Abs(value), 1000))

\* The two-decimal amounts below 10, in hundredths, that lie midway between
\* two tenths and whose double is larger than the amount: '.1f' rounds
\* these up and the other such amounts down, except the amounts ending in
\* .25 and .75, which a double holds exactly and '.1f' rounds half-even.
TiesAbove ==
    {5, 45, 55, 65, 105, 135, 155, 185, 235, 245, 285, 295, 335, 345, 385, 395,
     415, 445, 465, 495, 515, 545, 565, 595, 615, 645, 665, 695, 715, 745, 765,
     795, 805, 815, 855, 865, 905, 915, 955, 965}

\* f'{value:.1f}' of a value below 10 in absolute value.
Fixed1(value) ==
    LET hundredths == Abs(value) \div 10
        tenths == IF Abs(value) % 100 = 50 /\ hundredths % 50 # 25
                  THEN (hundredths \div 10) + (IF hundredths \in TiesAbove THEN 1 ELSE 0)
                  ELSE RoundHalfEven(Abs(value), 100)
    IN  (IF value < 0 THEN "-" ELSE "") \o NatText(tenths \div 10) \o "." \o D1(tenths % 10)

\* format_number(value), value in mills.  pd.isna(value) is never true of a
\* value the pipeline passes (sums and maxima of cleaned columns).
format_number(value) ==
    IF value = 0 THEN "0"
    ELSE IF Abs(value) >= 1000000 * 1000 THEN Fixed0(value)
    ELSE IF Abs(value) >= 1000 * 1000 THEN Fixed0(value)
    ELSE IF value % 1000 = 0
         THEN (IF value < 0 THEN "-" ELSE "") \o NatText(Abs(value) \div 1000)
    ELSE IF Abs(value) >= 10 * 1000 THEN Fixed0(value)
    ELSE Fixed1(value)

(***************************************************************************)
(* The calendar: calendar.monthrange, Timestamp.isocalendar, strftime.     *)
(***************************************************************************)
IsLeap(y) == (y % 4 = 0 /\ y % 100 # 0) \/ y % 400 = 0

\* calendar.monthrange(year, month)[1]
DaysInMonth(y, m) ==
    IF m = 2 THEN (IF IsLeap(y) THEN 29 ELSE 28)
    ELSE IF m \in {4, 6, 9, 11} THEN 30 ELSE 31

RECURSIVE DaysBeforeMonth(_, _)
DaysBeforeMonth(y, m) ==
    IF m = 1 THEN 0 ELSE DaysBeforeMonth(y, m - 1) + DaysInMonth(y, m - 1)

\* Days before January 1 of year y, counted from year 1 (proleptic Gregorian).
DaysBeforeYear(y) ==
    LET p == y - 1 IN p * 365 + p \div 4 - p \div 100 + p \div 400

DayOfYear(date) == DaysBeforeMonth(date[1], date[2]) + date[3]
\* date.toordinal(): 0001-01-01 is day 1, a Monday.
Ordinal(date) == DaysBeforeYear(date[1]) + DayOfYear(date)
\* isoweekday(): Monday 1 .. Sunday 7.
IsoWeekday(date) == ((Ordinal(date) - 1) % 7) + 1

\* The number of ISO weeks of year y (52 or 53).
IsoWeeksInYear(y) ==
    LET jan1 == IsoWeekday(<<y, 1, 1>>)
    IN  IF jan1 = 4 \/ (jan1 = 3 /\ IsLeap(y)) THEN 53 ELSE 52

\* isocalendar(): <<ISO year, ISO week>>.
IsoCalendar(date) ==
    LET y == date[1]
        w == (DayOfYear(date) - IsoWeekday(date) + 10) \div 7
    IN  IF w < 1 THEN <<y - 1, IsoWeeksInYear(y - 1)>>
        ELSE IF w > IsoWeeksInYear(y) THEN <<y + 1, 1>>
        ELSE <<y, w>>

\* Line 503: ISO_Year + '-W' + ISO_Week.zfill(2)
YearWeek(date) ==
    LET iso == IsoCalendar(date) IN NatText(iso[1]) \o "-W" \o D2(iso[2])

\* strftime('%Y-%m-%d'), the label of a daily row.
DayLabel(date) == D4(date[1]) \o "-" \o D2(date[2]) \o "-" \o D2(date[3])
\* f"{year}/{month:02d}", the label of a month summary.
MonthLabel(y, m) == NatText(y) \o "/" \o D2(m)
\* strftime('%m/%d')~strftime('%m/%d'), the label of a week summary.
WeekLabel(start_date, end_date) ==
    D2(start_date[2]) \o "/" \o D2(start_date[3]) \o "~"
        \o D2(end_date[2]) \o "/" \o D2(end_date[3])

\* Chronological order of dates (Date_dt).
DateLess(a, b) ==
    \/ a[1] < b[1]
    \/ a[1] = b[1] /\ a[2] < b[2]
    \/ a[1] = b[1] /\ a[2] = b[2] /\ a[3] < b[3]

\* A date text pd.to_datetime(errors='coerce') turns into NaT.
BadDate == <<0, 0, 0>>
IsValidDate(date) == date # BadDate

(***************************************************************************)
(* Raw records.  A metric cell of the CSV is numeric text (its value in    *)
(* mills), a missing value, or text that is no number.                     *)
(***************************************************************************)
Num(v) == [kind |-> "num", v |-> v]
NanCell == [kind |-> "nan", v |-> 0]
TextCell == [kind |-> "text", v |-> 0]

\* The metric columns modelled, of the 18 the aggregator sums (lines
\* 124-141): two integer-kind flows and gauges and three float-kind flows.
\* reg = 注册用户, dau = 交易人数, spot = 现货交易金额,
\* futures = 合约交易金额, net = 净充值折U.
RawMetrics == {"reg", "dau", "spot", "futures", "net"}

\* Lines 94-95: str.replace(',', ''), 'nan' -> '0', pd.to_numeric(coerce),
\* fillna(0).
clean_numeric(cell) == IF cell.kind = "num" THEN cell.v ELSE 0

\* Lines 92-95 assign the cleaned columns to the frame the caller passed.
clean_columns(rec) ==
    [f \in DOMAIN rec |->
        IF f \in RawMetrics THEN Num(clean_numeric(rec[f])) ELSE rec[f]]

\* Lines 98-106 for one record: the levels canonicalised, the key added.
tag_record(rec) ==
    LET sup == canonical_level(rec.supervisor)
        bd == canonical_level(rec.bd)
    IN  [supervisor |-> sup, bd |-> bd, kol |-> rec.kol, date |-> rec.date,
         reg |-> clean_numeric(rec.reg), dau |-> clean_numeric(rec.dau),
         spot |-> clean_numeric(rec.spot),
         futures |-> clean_numeric(rec.futures),
         net |-> clean_numeric(rec.net),
         dimension |-> dimension_key(sup, bd)]

\* A filter that looks at the supervisor level only.
is_excluded_by_supervisor_only(t) == Contains(t.supervisor, Marker)

\* Lines 110-112: the three exclusion filters.
is_excluded(t) ==
    \/ Contains(t.supervisor, Marker)
    \/ Contains(t.bd, Marker)
    \/ Contains(t.dimension, Marker)

\* process_raw_data(df): the records kept, in input order.
process_raw_data(frame) ==
    LET tagged == [i \in 1..Len(frame) |-> tag_record(frame[i])]
        Kept(t) == ~is_excluded(t)
    IN  SelectSeq(tagged, Kept)

(***************************************************************************)
(* The aggregator (_aggregate_data_impl, lines 120-171).                   *)
(***************************************************************************)
\* The sum of a column, taken by halves.
RECURSIVE SeqSum(_)
SeqSum(s) ==
    IF s = <<>> THEN 0
    ELSE IF Len(s) = 1 THEN s[1]
    ELSE LET half == Len(s) \div 2
         IN  SeqSum(SubSeq(s, 1, half)) + SeqSum(SubSeq(s, half + 1, Len(s)))
\* The maximum of a non-empty column.
SeqMax(s) == CHOOSE x \in {s[i] : i \in 1..Len(s)} : \A i \in 1..Len(s) : s[i] <= x
Column(rows, col) == [i \in 1..Len(rows) |-> rows[i][col]]

\* astype(int): truncation toward zero.
TruncInt(v) ==
    IF v < 0 THEN 0 - (((0 - v) \div 1000) * 1000) ELSE (v \div 1000) * 1000
\* round(2): to hundredths, ties to even.
Round2(v) ==
    IF v < 0 THEN 0 - (RoundHalfEven(0 - v, 10) * 10)
    ELSE RoundHalfEven(v, 10) * 10

KeyLess(a, b) ==
    IF a[1] = b[1] THEN DateLess(a[2], b[2]) ELSE StrLess(a[1], b[1])

\* The members of a set of group keys in ascending order: each key is placed
\* after the keys below it.
SortedKeys(S) ==
    LET placed == {<<Cardinality({x \in S : KeyLess(x, k)}) + 1, k>> : k \in S}
    IN  [i \in 1..Cardinality(S) |-> (CHOOSE p \in placed : p[1] = i)[2]]

\* The group keys in the order the records present them, as
\* groupby(sort=False) gives them.
RECURSIVE FirstSeenKeys(_, _)
FirstSeenKeys(frame, seen) ==
    IF frame = <<>> THEN <<>>
    ELSE LET k == <<Head(frame).dimension, Head(frame).date>>
         IN  IF k \in seen THEN FirstSeenKeys(Tail(frame), seen)
             ELSE <<k>> \o FirstSeenKeys(Tail(frame), seen \cup {k})
group_keys_in_input_order(frame) == FirstSeenKeys(frame, {})

\* df.groupby(['dimension', '统计日期']): the group keys, sorted.
group_keys(frame) ==
    SortedKeys({<<frame[i].dimension, frame[i].date>> : i \in 1..Len(frame)})

\* One aggregated row: sums (lines 123-142), the derived total (145), the
\* distinct count (148-153), the renaming (156), astype(int) (159-161) and
\* round(2) (164-169).
aggregate_group(frame, key) ==
    LET InGroup(t) == t.dimension = key[1] /\ t.date = key[2]
        members == SelectSeq(frame, InGroup)
        spot == SeqSum(Column(members, "spot"))
        futures == SeqSum(Column(members, "futures"))
        total == spot + futures
        kols == {members[i].kol : i \in 1..Len(members)}
    IN  ("Dimension" :> key[1]) @@ ("Date" :> key[2])
        @@ ("Reg" :> TruncInt(SeqSum(Column(members, "reg"))))
        @@ ("Net Deposit ($)" :> Round2(SeqSum(Column(members, "net"))))
        @@ ("DAU" :> TruncInt(SeqSum(Column(members, "dau"))))
        @@ ("Spot Vol ($)" :> Round2(spot))
        @@ ("Futures Vol ($)" :> Round2(futures))
        @@ ("Total Vol ($)" :> Round2(total))
        @@ ("Activate KOL" :> TruncInt(Cardinality(kols) * 1000))

\* aggregate_data(df), line 175.
aggregate_data(frame) ==
    LET keys == group_keys(frame)
    IN  [i \in 1..Len(keys) |-> aggregate_group(frame, keys[i])]

\* df.groupby(['总代理', 'dimension', '统计日期']): the group keys, sorted.
kol_group_keys(frame) ==
    LET S == {<<frame[i].kol, frame[i].dimension, frame[i].date>> :
                 i \in 1..Len(frame)}
        Less(a, b) == IF a[1] = b[1] THEN KeyLess(<<a[2], a[3]>>, <<b[2], b[3]>>)
                      ELSE StrLess(a[1], b[1])
        placed == {<<Cardinality({x \in S : Less(x, k)}) + 1, k>> : k \in S}
    IN  [i \in 1..Cardinality(S) |-> (CHOOSE p \in placed : p[1] = i)[2]]

\* One row of _aggregate_data_impl(df_kol, ['总代理', 'dimension',
\* '统计日期'], include_kol_count=False): the group's sub-agent (column
\* '总代理', here "KOL"), its sums, the derived total, astype(int) and
\* round(2); lines 148-153 are skipped, so there is no 'Activate KOL'.
aggregate_kol_group(frame, key) ==
    LET InGroup(t) == t.kol = key[1]
        members == SelectSeq(frame, InGroup)
        summed == aggregate_group(members, <<key[2], key[3]>>)
    IN  ("KOL" :> key[1])
        @@ [c \in (DOMAIN summed) \ {"Activate KOL"} |-> summed[c]]

\* aggregate_data_by_kol(df), lines 177-185: the records with a sub-agent
\* (line 180; an empty cell is '' after line 98); an empty frame without one.
aggregate_data_by_kol(frame) ==
    LET HasKol(t) == t.kol # Empty
        df_kol == SelectSeq(frame, HasKol)
        keys == kol_group_keys(df_kol)
    IN  IF Len(df_kol) = 0 THEN <<>>
        ELSE [i \in 1..Len(keys) |-> aggregate_kol_group(df_kol, keys[i])]

(***************************************************************************)
(* The temporal rollup builder for one dimension (create_table_data,       *)
(* lines 187-292).  A table row is the sequence of its cell texts: the     *)
(* label first, then one formatted value per available column.             *)
(***************************************************************************)
\* self.display_columns (lines 62-68), the modelled columns in its order.
display_columns ==
    <<"Date", "Reg", "Net Deposit ($)", "DAU", "Spot Vol ($)",
      "Futures Vol ($)", "Total Vol ($)", "Activate KOL">>
MetricColumns == SubSeq(display_columns, 2, Len(display_columns))

\* The metric names the rollups special-case (lines 278, 288, 549, 564, 591).
GaugeColumns == {"DAU", "Activate KOL"}

RECURSIVE Concat(_)
Concat(ss) == IF ss = <<>> THEN <<>> ELSE Head(ss) \o Concat(Tail(ss))

\* Lines 195 / 431 / 741: frame['Date_dt'] = pd.to_datetime(frame['Date'],
\* errors='coerce'), a column added to the frame the caller passed.
with_date_dt(rows) ==
    [i \in 1..Len(rows) |-> rows[i] @@ ("Date_dt" :> rows[i]["Date"])]

\* Lines 195-196 / 431-432: the rows whose Date parses.
valid_rows(rows) ==
    LET Parses(r) == IsValidDate(r["Date"]) IN SelectSeq(rows, Parses)

\* The rows left in the order of the frame.
left_in_frame_order(rows) == rows

\* sort_values('Date_dt', ascending=False): newest first; rows of one date
\* keep their order.
sort_desc(rows) ==
    LET n == Len(rows)
        placed == {<<Cardinality({j \in 1..n :
                        \/ DateLess(rows[i]["Date"], rows[j]["Date"])
                        \/ rows[j]["Date"] = rows[i]["Date"] /\ j < i}) + 1, i>>
                   : i \in 1..n}
    IN  [p \in 1..n |-> rows[(CHOOSE q \in placed : q[1] = p)[2]]]

YearMonthOf(r) == <<r["Date"][1], r["Date"][2]>>

\* groupby('YearMonth', sort=False): the months in order of first appearance.
\* The distinct members of a sequence of keys, each placed after the keys
\* that appear first at an earlier position.
first_seen(keys) ==
    LET n == Len(keys)
        firsts == {i \in 1..n : \A j \in 1..(i - 1) : keys[j] # keys[i]}
        placed == {<<Cardinality({j \in firsts : j < i}) + 1, keys[i]>> : i \in firsts}
    IN  [p \in 1..Cardinality(firsts) |-> (CHOOSE q \in placed : q[1] = p)[2]]

month_keys(rows) == first_seen([i \in 1..Len(rows) |-> YearMonthOf(rows[i])])

month_rows(rows, ym) ==
    LET InMonth(r) == YearMonthOf(r) = ym IN SelectSeq(rows, InMonth)

\* A completeness test that counts the rows instead of the distinct days.
is_month_complete_by_rows(month_data, year, month) ==
    Len(month_data) >= DaysInMonth(year, month)

\* A completeness test that lets a month pass with one day missing.
is_month_complete_but_one(month_data, year, month) ==
    LET unique_days == Cardinality({month_data[i]["Date"][3] : i \in 1..Len(month_data)})
    IN  unique_days >= DaysInMonth(year, month) - 1

\* is_month_complete (lines 83-87).
is_month_complete(month_data, year, month) ==
    LET unique_days == Cardinality({month_data[i]["Date"][3] : i \in 1..Len(month_data)})
    IN  unique_days >= DaysInMonth(year, month)

\* A summary value that takes the maximum for 'DAU' only.
summary_value_dau_only(rows, col) ==
    IF col = "DAU" THEN SeqMax(Column(rows, col))
    ELSE SeqSum(Column(rows, col))

\* The value of a summary row: max for the gauge columns, sum otherwise
\* (lines 277-281, 287-291, 548-556, 563-571, 578-584, 590-596).
summary_value(rows, col) ==
    IF col \in GaugeColumns THEN SeqMax(Column(rows, col))
    ELSE SeqSum(Column(rows, col))

summary_cells(rows, columns) ==
    [i \in 1..(Len(columns) - 1) |-> format_number(summary_value(rows, columns[i + 1]))]

\* Lines 250-258 / 522-529: one daily row.
daily_row(row, columns) ==
    <<DayLabel(row["Date"])>>
        \o [i \in 1..(Len(columns) - 1) |-> format_number(row[columns[i + 1]])]

\* _add_month_total_row (lines 273-282).
month_total_row(month_data, columns, year, month) ==
    <<MonthLabel(year, month)>> \o summary_cells(month_data, columns)

\* A TOTAL row that sums the gauge columns as well.
total_row_summing_gauges(agent_data, columns) ==
    <<"TOTAL">> \o [i \in 1..(Len(columns) - 1) |->
                      format_number(SeqSum(Column(agent_data, columns[i + 1])))]

\* _add_total_row (lines 284-292).
total_row(agent_data, columns) == <<"TOTAL">> \o summary_cells(agent_data, columns)

\* A month loop body that gives every earlier month its summary row.
bd_month_block_without_completeness(month_data, latest_year_month, columns) ==
    LET year == month_data[1]["Date"][1]
        month == month_data[1]["Date"][2]
        is_latest_month == YearMonthOf(month_data[1]) = latest_year_month
    IN  IF is_latest_month
        THEN [i \in 1..Len(month_data) |-> daily_row(month_data[i], columns)]
                \o <<month_total_row(month_data, columns, year, month)>>
        ELSE <<month_total_row(month_data, columns, year, month)>>

\* Lines 241-265: the rows one month group contributes.
bd_month_block(month_data, latest_year_month, columns) ==
    LET year == month_data[1]["Date"][1]
        month == month_data[1]["Date"][2]
        is_latest_month == YearMonthOf(month_data[1]) = latest_year_month
        is_complete == is_month_complete(month_data, year, month)
    IN  IF is_latest_month
        THEN [i \in 1..Len(month_data) |-> daily_row(month_data[i], columns)]
                \o <<month_total_row(month_data, columns, year, month)>>
        ELSE IF is_complete
        THEN <<month_total_row(month_data, columns, year, month)>>
        ELSE <<>>

\* Lines 213-232 with kol_name = None: <<supervisor, business_name>>.
names_of(dimension) ==
    IF Contains(dimension, Sep)
    THEN LET parts == Split(dimension, Sep)
         IN  <<Strip(parts[1]), Strip(parts[Len(parts)])>>
    ELSE <<Empty, dimension>>

\* What create_table_data returns when no row has a valid date (line 199):
\* the tuple (None, None, None, None).
NoneTuple ==
    [none |-> TRUE, table_data |-> <<>>, available_columns |-> <<>>,
     business_name |-> Empty, supervisor |-> Empty]

\* Line 235: the display columns that are columns of agent_data.
available_columns_of(agent_data) ==
    LET Present(col) == col \in DOMAIN agent_data[1]
    IN  SelectSeq(display_columns, Present)

create_table_data(rows) ==
    LET agent_data == sort_desc(valid_rows(rows))
        latest_year_month == YearMonthOf(agent_data[1])
        months == month_keys(agent_data)
        available_columns == available_columns_of(agent_data)
        blocks == [i \in 1..Len(months) |->
                      bd_month_block(month_rows(agent_data, months[i]),
                                     latest_year_month, available_columns)]
        names == names_of(agent_data[1]["Dimension"])
    IN  IF valid_rows(rows) = <<>> THEN NoneTuple
        ELSE [none |-> FALSE,
              table_data |-> Concat(blocks) \o <<total_row(agent_data, available_columns)>>,
              available_columns |-> available_columns,
              business_name |-> names[2],
              supervisor |-> names[1]]

(***************************************************************************)
(* The temporal rollup builder for one supervisor team                     *)
(* (create_supervisor_report, lines 425-597).                              *)
(***************************************************************************)
SortedDates(S) ==
    LET placed == {<<Cardinality({x \in S : DateLess(x, d)}) + 1, d>> : d \in S}
    IN  [i \in 1..Cardinality(S) |-> (CHOOSE p \in placed : p[1] = i)[2]]

\* Lines 447-467: one row per date, every metric summed over the team.
team_day(rows, date) ==
    LET OnDate(r) == r["Date"] = date
        members == SelectSeq(rows, OnDate)
    IN  [c \in {display_columns[i] : i \in 1..Len(display_columns)} |->
            IF c = "Date" THEN date ELSE SeqSum(Column(members, c))]

\* Lines 447-470: groupby the date, then newest first.
daily_totals_of(rows) ==
    LET dates == SortedDates({rows[i]["Date"] : i \in 1..Len(rows)})
    IN  sort_desc([i \in 1..Len(dates) |-> team_day(rows, dates[i])])

\* The week keys in the order their last day is shown, oldest week first.
week_keys_oldest_first(rows) ==
    first_seen([i \in 1..Len(rows) |-> YearWeek(rows[Len(rows) + 1 - i]["Date"])])

\* One week key per daily row, repeated for the days of one week.
week_keys_per_day(rows) == [i \in 1..Len(rows) |-> YearWeek(rows[i]["Date"])]

\* Lines 520-535: the YearWeek keys of the latest month's rows, in the order
\* their first day is shown (the insertion order of week_groups).
week_keys(rows) == first_seen([i \in 1..Len(rows) |-> YearWeek(rows[i]["Date"])])

\* The week's rows taken from the latest month only.
week_data_of_latest_month(full_team_data, week_key) ==
    LET InWeek(r) == /\ YearWeek(r["Date"]) = week_key
                     /\ YearMonthOf(r) = YearMonthOf(full_team_data[1])
    IN  SelectSeq(full_team_data, InWeek)

\* Line 540: the rows of the whole team range that fall in the week.
week_data_of(full_team_data, week_key) ==
    LET InWeek(r) == YearWeek(r["Date"]) = week_key
    IN  SelectSeq(full_team_data, InWeek)

\* Lines 538-558: one week summary row.
week_total_row(full_team_data, week_key, columns) ==
    LET week_data == week_data_of(full_team_data, week_key)
        dates == SortedDates({week_data[i]["Date"] : i \in 1..Len(week_data)})
        start_date == dates[1]
        end_date == dates[Len(dates)]
    IN  <<WeekLabel(start_date, end_date)>> \o summary_cells(week_data, columns)

\* Lines 505-585: the rows one month group contributes.
team_month_block(month_data, latest_year_month, full_team_data, columns) ==
    LET year == month_data[1]["Date"][1]
        month == month_data[1]["Date"][2]
        is_latest_month == YearMonthOf(month_data[1]) = latest_year_month
        is_complete == is_month_complete(month_data, year, month)
        weeks == week_keys(month_data)
    IN  IF is_latest_month
        THEN [i \in 1..Len(month_data) |-> daily_row(month_data[i], columns)]
                \o [i \in 1..Len(weeks) |->
                        week_total_row(full_team_data, weeks[i], columns)]
                \o <<month_total_row(month_data, columns, year, month)>>
        ELSE IF is_complete
        THEN <<month_total_row(month_data, columns, year, month)>>
        ELSE <<>>

\* What create_supervisor_report returns when no row has a valid date
\* (line 436): None.
NoReport == [none |-> TRUE, table_data |-> <<>>]

\* Lines 447-467: groupby(...).agg({...}) names every metric column and
\* raises KeyError for one the frame lacks; main (lines 1167-1175) catches
\* it, prints it and goes on to the next team.
KeyError == [none |-> TRUE, table_data |-> <<>>, raised |-> "KeyError"]

create_supervisor_report(rows) ==
    LET supervisor_data == valid_rows(rows)
        daily_totals == daily_totals_of(supervisor_data)
        latest_year_month == YearMonthOf(daily_totals[1])
        months == month_keys(daily_totals)
        blocks == [i \in 1..Len(months) |->
                      team_month_block(month_rows(daily_totals, months[i]),
                                       latest_year_month, daily_totals,
                                       display_columns)]
    IN  IF supervisor_data = <<>> THEN NoReport
        ELSE IF \E k \in 1..Len(MetricColumns) :
                    MetricColumns[k] \notin DOMAIN supervisor_data[1]
        THEN KeyError
        ELSE [none |-> FALSE,
              table_data |-> Concat(blocks)
                                \o <<total_row(daily_totals, display_columns)>>]

(***************************************************************************)
(* group_by_supervisor (lines 977-992) and main's selection (line 1169).   *)
(***************************************************************************)
Other == <<"O", "t", "h", "e", "r">>

Dimensions(frame) == {frame[i]["Dimension"] : i \in 1..Len(frame)}

supervisor_of(dimension) ==
    IF Contains(dimension, Sep) THEN Strip(Split(dimension, Sep)[1]) ELSE Other

\* The keys of the dict group_by_supervisor returns.
group_by_supervisor(frame) == {supervisor_of(d) : d \in Dimensions(frame)}

\* A selection by the start of the key, as line 1169 makes it for a team.
rows_of_dimension_by_prefix(frame, dimension) ==
    LET Is(r) == StartsWith(r["Dimension"], dimension) IN SelectSeq(frame, Is)

\* Line 1029: result[result['Dimension'] == dimension]
rows_of_dimension(frame, dimension) ==
    LET Is(r) == r["Dimension"] = dimension IN SelectSeq(frame, Is)

\* Line 1169: Dimension.str.startswith(supervisor_name + ' - ')
rows_of_team(frame, supervisor_name) ==
    LET Is(r) == StartsWith(r["Dimension"], supervisor_name \o Sep)
    IN  SelectSeq(frame, Is)

(***************************************************************************)
(* The inputs enumerated.                                                  *)
(***************************************************************************)
NameS == <<"S">>
NameA == <<"A">>
NameB == <<"B">>
NameC == <<"C">>
Departed == <<"A", "L", "Z">>       \* a representative marked as departed
Kol1 == <<"k", "1">>
Kol2 == <<"k", "2">>

\* <<supervisor level, representative level>> of a raw record: two members
\* of one team, a representative without supervisor, a departed one.
LevelPairs ==
    {<<NameS, NameA>>, <<NameS, NameB>>, <<Empty, NameC>>, <<NameS, Departed>>}

\* February 28 (Friday) and March 1 (Saturday) 2025 share ISO week 9;
\* March 3 (Monday) opens week 10.
RawDates == {<<2025, 2, 28>>, <<2025, 3, 1>>, <<2025, 3, 3>>, BadDate}
Kols == {Kol1, Kol2}

\* Metric cells of a raw record: small amounts with sub-cent parts, and
\* large ones.
Profiles ==
    {[reg |-> Num(1000), dau |-> Num(2000), spot |-> Num(4), futures |-> Num(4),
      net |-> Num(-1500)],
     [reg |-> Num(2000), dau |-> Num(1000), spot |-> Num(1250000),
      futures |-> Num(500), net |-> Num(250)]}

RawRecord(lp, k, d, p) ==
    [supervisor |-> lp[1], bd |-> lp[2], kol |-> k, date |-> d,
     reg |-> p.reg, dau |-> p.dau, spot |-> p.spot, futures |-> p.futures,
     net |-> p.net]

RawRecords ==
    {RawRecord(lp, k, d, p) : lp \in LevelPairs, k \in Kols, d \in RawDates,
                              p \in Profiles}

SeqsUpTo(S, n) == UNION {[1..k -> S] : k \in 0..n}

NoOutputs == [aggregated |-> <<>>, bd |-> <<>>, team |-> <<>>]
NoNumber == [nan |-> FALSE, v |-> 0]
NoFrame == [columns |-> {}, rows |-> <<>>]
NoComparison ==
    [none |-> TRUE, data |-> <<>>, supervisors_data |-> <<>>, table_data |-> <<>>]
NoMonthCall == [month_data |-> <<>>, year |-> 0, month |-> 0, returned |-> "nothing"]

(***************************************************************************)
(* The pipeline of main() as a state machine.                              *)
(***************************************************************************)
InitRest ==
    /\ pc = "start"
    /\ processed_df = <<>>
    /\ aggregated_df = <<>>
    /\ bd_tables = <<>>
    /\ team_tables = <<>>
    /\ run = 1
    /\ first_out = NoOutputs
    /\ current = NoNumber
    /\ previous = NoNumber
    /\ change_text = ""
    /\ month_call = NoMonthCall
    /\ data = NoFrame
    /\ comparison = NoComparison
    /\ kol_aggregated_df = <<>>
    /\ agent_datas = <<>>
    /\ supervisor_dfs = <<>>

Init ==
    /\ df \in SeqsUpTo(RawRecords, MaxRecs)
    /\ InitRest

\* main, line 1141: processed_df = generator.process_raw_data(df).  The
\* numeric columns of the caller's frame are rewritten in place.
ProcessRawData ==
    /\ pc = "start"
    /\ processed_df' = process_raw_data(df)
    /\ df' = [i \in 1..Len(df) |-> clean_columns(df[i])]
    /\ pc' = "processed"
    /\ UNCHANGED <<aggregated_df, bd_tables, team_tables, run, first_out,
                   current, previous, kol_aggregated_df, agent_datas,
                   supervisor_dfs, change_text, data, comparison,
                   month_call>>

\* generate_reports, line 1008 (and again main, line 1159).
AggregateData ==
    /\ pc = "processed"
    /\ aggregated_df' = aggregate_data(processed_df)
    /\ pc' = "aggregated"
    /\ UNCHANGED <<df, processed_df, bd_tables, team_tables, run, first_out,
                   current, previous, kol_aggregated_df, agent_datas,
                   supervisor_dfs, change_text, data, comparison,
                   month_call>>

\* generate_reports, lines 1028-1030: one create_bd_report.  With no valid
\* date create_table_data returns a tuple of None, which create_bd_report
\* (line 963) does not take for None: create_visualization raises TypeError
\* and main ends.
CreateBdReport(dimension) ==
    /\ pc = "aggregated"
    /\ dimension \in Dimensions(aggregated_df) \ DOMAIN bd_tables
    /\ LET agent_data == rows_of_dimension(aggregated_df, dimension)
           result == create_table_data(agent_data)
       IN  /\ bd_tables' = (dimension :> result) @@ bd_tables
           /\ agent_datas' = (dimension :> with_date_dt(agent_data)) @@ agent_datas
           /\ pc' = IF result.none THEN "TypeError" ELSE pc
    /\ UNCHANGED <<df, processed_df, aggregated_df, team_tables, run,
                   first_out, current, previous, kol_aggregated_df,
                   supervisor_dfs, change_text, data,
                   comparison, month_call>>

\* generate_reports returns (line 1039); main goes on to the team reports.
EndBdReports ==
    /\ pc = "aggregated"
    /\ DOMAIN bd_tables = Dimensions(aggregated_df)
    /\ pc' = "team"
    /\ UNCHANGED <<df, processed_df, aggregated_df, bd_tables, team_tables,
                   run, first_out, current, previous, kol_aggregated_df,
                   agent_datas, supervisor_dfs, change_text, data,
                   comparison, month_call>>

\* main, lines 1165-1170: one create_supervisor_report.
CreateSupervisorReport(supervisor_name) ==
    /\ pc = "team"
    /\ supervisor_name \in group_by_supervisor(aggregated_df) \ DOMAIN team_tables
    /\ LET supervisor_df == rows_of_team(aggregated_df, supervisor_name)
       IN  /\ team_tables' =
                 (supervisor_name :> create_supervisor_report(supervisor_df))
                 @@ team_tables
           /\ supervisor_dfs' =
                 (supervisor_name :> with_date_dt(supervisor_df)) @@ supervisor_dfs
    /\ UNCHANGED <<pc, df, processed_df, aggregated_df, bd_tables, run,
                   first_out, current, previous, kol_aggregated_df,
                   agent_datas, change_text, data,
                   comparison, month_call>>

\* main, line 1177: the loop over the teams is over.
EndTeamReports ==
    /\ pc = "team"
    /\ DOMAIN team_tables = group_by_supervisor(aggregated_df)
    /\ pc' = "done"
    /\ UNCHANGED <<df, processed_df, aggregated_df, bd_tables, team_tables,
                   run, first_out, current, previous, kol_aggregated_df,
                   agent_datas, supervisor_dfs, change_text, data,
                   comparison, month_call>>

\* The aggregator and the rollup builders run a second time on the same
\* processed records, presented in any order.
Rerun ==
    /\ pc = "done"
    /\ run = 1
    /\ first_out' = [aggregated |-> aggregated_df, bd |-> bd_tables,
                     team |-> team_tables]
    /\ \E p \in Permutations(1..Len(processed_df)) :
          processed_df' = [i \in 1..Len(processed_df) |-> processed_df[p[i]]]
    /\ run' = 2
    /\ pc' = "processed"
    /\ aggregated_df' = <<>>
    /\ bd_tables' = <<>>
    /\ team_tables' = <<>>
    /\ agent_datas' = <<>>
    /\ supervisor_dfs' = <<>>
    /\ UNCHANGED <<df, current, previous, kol_aggregated_df, change_text,
                   data, comparison, month_call>>

Next ==
    \/ ProcessRawData
    \/ AggregateData
    \/ \E d \in Dimensions(aggregated_df) : CreateBdReport(d)
    \/ EndBdReports
    \/ \E s \in group_by_supervisor(aggregated_df) : CreateSupervisorReport(s)
    \/ EndTeamReports
    \/ Rerun

Spec == Init /\ [][Next]_vars

(***************************************************************************)
(* The rollup builders on aggregated rows that cover whole months: the     *)
(* stage after aggregate_data, entered with an aggregated frame made of    *)
(* month blocks of dimension 'S - A' plus a few free rows.                 *)
(***************************************************************************)
DimSA == NameS \o Sep \o NameA
DimSB == NameS \o Sep \o NameB

FullMonth(y, m) == {<<y, m, d>> : d \in 1..DaysInMonth(y, m)}

\* January 2025: absent or whole.  February 2025: absent, whole, or whole
\* but for its last day.
JanuaryChoices == {{}, FullMonth(2025, 1)}
FebruaryChoices ==
    {{}, FullMonth(2025, 2), FullMonth(2025, 2) \ {<<2025, 2, 28>>}}

\* The free rows: either dimension, on a date around the turn of the month
\* (ISO week 5: Jan 27 - Feb 2; week 9: Feb 24 - Mar 2; week 10: Mar 3 - 9)
\* or with a date that does not parse.
ExtraDates ==
    {<<2025, 2, 1>>, <<2025, 2, 28>>, <<2025, 3, 1>>, <<2025, 3, 3>>, BadDate}
ExtraKeys == {<<d, dt>> : d \in {DimSA, DimSB}, dt \in ExtraDates}

\* The metric values of the aggregated row of a dimension on a date: integer
\* kinds whole, float kinds in hundredths, varying with the day.
AggregatedRow(dimension, date) ==
    LET day == date[3] + date[2]
        k == IF dimension = DimSA THEN 1 ELSE 2
        spot == 10 * ((day * 37 + k) % 100) + 1000 * (day % 4)
        futures == 10 * ((day * 53 + 7 * k) % 100) + 4000 * (day % 5) * k
    IN  ("Dimension" :> dimension) @@ ("Date" :> date)
        @@ ("Reg" :> 1000 * (k + (day % 3)))
        @@ ("Net Deposit ($)" :> 10 * ((day * 29) % 200) - 750 * k)
        @@ ("DAU" :> 1000 * (1 + ((day * 7 + k) % 5)))
        @@ ("Spot Vol ($)" :> spot)
        @@ ("Futures Vol ($)" :> futures)
        @@ ("Total Vol ($)" :> spot + futures)
        @@ ("Activate KOL" :> 1000 * (1 + ((day + k) % 2)))

AggregatedFrame(keys) ==
    LET sorted == SortedKeys(keys)
    IN  [i \in 1..Len(sorted) |-> AggregatedRow(sorted[i][1], sorted[i][2])]

InitRollup ==
    /\ \E jan \in JanuaryChoices, feb \in FebruaryChoices :
       \E extra \in SUBSET ExtraKeys :
          /\ Cardinality(extra) <= MaxExtra
          /\ aggregated_df =
                AggregatedFrame({<<DimSA, dt>> : dt \in jan \cup feb} \cup extra)
    /\ pc = "aggregated"
    /\ df = <<>>
    /\ processed_df = <<>>
    /\ bd_tables = <<>>
    /\ team_tables = <<>>
    /\ run = 1
    /\ first_out = NoOutputs
    /\ current = NoNumber
    /\ previous = NoNumber
    /\ change_text = ""
    /\ month_call = NoMonthCall
    /\ data = NoFrame
    /\ comparison = NoComparison
    /\ kol_aggregated_df = <<>>
    /\ agent_datas = <<>>
    /\ supervisor_dfs = <<>>

NextRollup ==
    \/ \E d \in Dimensions(aggregated_df) : CreateBdReport(d)
    \/ EndBdReports
    \/ \E s \in group_by_supervisor(aggregated_df) : CreateSupervisorReport(s)
    \/ EndTeamReports

SpecRollup == InitRollup /\ [][NextRollup]_vars

(***************************************************************************)
(* The pipeline on two raw records: one whose levels range over all short  *)
(* texts of spaces, dashes and marker characters and a few names, and one  *)
(* ordinary record of representative 'S - A'.                              *)
(***************************************************************************)
KeyAlphabet == {" ", "-", "L", "Z"}
TextsUpTo(n) == UNION {[1..k -> KeyAlphabet] : k \in 0..n}
KeyLevels == TextsUpTo(MaxLevelLen) \cup {Alice, Bob, NanText, ZeroText, Departed}

KeyProfile ==
    [reg |-> Num(1000), dau |-> Num(1000), spot |-> Num(2500),
     futures |-> Num(1500), net |-> Num(500)]
PlainProfile ==
    [reg |-> Num(2000), dau |-> Num(3000), spot |-> Num(10), futures |-> NanCell,
     net |-> TextCell]
PlainRecord == RawRecord(<<NameS, NameA>>, Kol2, <<2025, 3, 1>>, PlainProfile)

InitKey ==
    /\ \E sup \in KeyLevels, bd \in KeyLevels :
          df = <<RawRecord(<<sup, bd>>, Kol1, <<2025, 3, 1>>, KeyProfile), PlainRecord>>
    /\ InitRest

NextKey ==
    \/ ProcessRawData
    \/ AggregateData
    \/ \E d \in Dimensions(aggregated_df) : CreateBdReport(d)
    \/ EndBdReports
    \/ \E s \in group_by_supervisor(aggregated_df) : CreateSupervisorReport(s)
    \/ EndTeamReports

SpecKey == InitKey /\ [][NextKey]_vars

(***************************************************************************)
(* process_raw_data on two records whose levels are empty ('', 'nan',     *)
(* '0'), a name, or a name with a blank before it.                         *)
(***************************************************************************)
PairLevels == {Empty, NanText, ZeroText, <<"L">>, <<"Z">>, <<" ", "L">>}

InitPair ==
    /\ \E s1 \in PairLevels, b1 \in PairLevels, s2 \in PairLevels, b2 \in PairLevels :
          df = <<RawRecord(<<s1, b1>>, Kol1, <<2025, 3, 1>>, KeyProfile),
                 RawRecord(<<s2, b2>>, Kol2, <<2025, 3, 1>>, KeyProfile)>>
    /\ InitRest

SpecPair == InitPair /\ [][ProcessRawData]_vars

(***************************************************************************)
(* The comparator's change rate (format_change_rate, lines 710-725).  A    *)
(* number is [nan |-> FALSE, v |-> n]; NaN is [nan |-> TRUE, v |-> 0].     *)
(***************************************************************************)
NaN == [nan |-> TRUE, v |-> 0]
Number(n) == [nan |-> FALSE, v |-> n]

\* f'{x:.1f}' of a non-negative x given in tenths.
OneDecimal(tenths) == NatText(tenths \div 10) \o "." \o D1(tenths % 10)

\* A change rate taken relative to previous instead of abs(previous).
format_change_rate_signed_base(cur, prev) ==
    IF prev.nan \/ prev.v = 0
    THEN (IF ~cur.nan /\ cur.v > 0 THEN "+100%" ELSE "0%")
    ELSE IF cur.nan THEN "0%"
    ELSE LET tenths == RoundHalfEven(1000 * Abs(cur.v - prev.v), Abs(prev.v))
             rising == (cur.v - prev.v) * prev.v > 0
         IN  IF cur.v = prev.v THEN "0%"
             ELSE IF rising THEN "+" \o OneDecimal(tenths) \o "%"
             ELSE "-" \o OneDecimal(tenths) \o "%"

\* A change rate whose sign is taken from the magnitudes of the two values.
format_change_rate_by_magnitude(cur, prev) ==
    IF prev.nan \/ prev.v = 0
    THEN (IF ~cur.nan /\ cur.v > 0 THEN "+100%" ELSE "0%")
    ELSE IF cur.nan THEN "0%"
    ELSE LET tenths == RoundHalfEven(1000 * Abs(cur.v - prev.v), Abs(prev.v))
         IN  IF Abs(cur.v) > Abs(prev.v) THEN "+" \o OneDecimal(tenths) \o "%"
             ELSE IF Abs(cur.v) < Abs(prev.v) THEN "-" \o OneDecimal(tenths) \o "%"
             ELSE "0%"

\* format_change_rate(current, previous).  pd.isna(previous) or previous == 0
\* gives '+100%' or '0%' (NaN > 0 is false).  Otherwise change_rate is
\* (current - previous) / abs(previous) * 100, NaN when current is NaN, and
\* NaN is neither > 0 nor < 0.  The rates that lie midway between two tenths
\* have a previous that is a multiple of 16 and are exact doubles, which
\* '.1f' rounds half-even; a negative rate that rounds to zero prints '-0.0%'.
format_change_rate(cur, prev) ==
    IF prev.nan \/ prev.v = 0
    THEN (IF ~cur.nan /\ cur.v > 0 THEN "+100%" ELSE "0%")
    ELSE IF cur.nan THEN "0%"
    ELSE LET tenths == RoundHalfEven(1000 * Abs(cur.v - prev.v), Abs(prev.v))
         IN  IF cur.v > prev.v THEN "+" \o OneDecimal(tenths) \o "%"
             ELSE IF cur.v < prev.v THEN "-" \o OneDecimal(tenths) \o "%"
             ELSE "0%"

\* The values compared: every whole number up to MaxRateVal in absolute
\* value, a previous of 16 (rates midway between two tenths), the values of
\* the documented cases, and NaN.
RateValues == (-MaxRateVal..MaxRateVal) \cup {16, 50, 100, 150}
RateInputs == {Number(n) : n \in RateValues} \cup {NaN}

InitRate ==
    /\ pc = "rate"
    /\ current \in RateInputs
    /\ previous \in RateInputs
    /\ change_text = ""
    /\ month_call = NoMonthCall
    /\ data = NoFrame
    /\ comparison = NoComparison
    /\ kol_aggregated_df = <<>>
    /\ agent_datas = <<>>
    /\ supervisor_dfs = <<>>
    /\ df = <<>>
    /\ processed_df = <<>>
    /\ aggregated_df = <<>>
    /\ bd_tables = <<>>
    /\ team_tables = <<>>
    /\ run = 1
    /\ first_out = NoOutputs

\* One call format_change_rate(current, previous).
FormatChangeRate ==
    /\ pc = "rate"
    /\ change_text' = format_change_rate(current, previous)
    /\ pc' = "rated"
    /\ UNCHANGED <<df, processed_df, aggregated_df, bd_tables, team_tables,
                   run, first_out, current, previous, kol_aggregated_df,
                   agent_datas, supervisor_dfs, data, comparison,
                   month_call>>

SpecRate == InitRate /\ [][FormatChangeRate]_vars

(***************************************************************************)
(* is_month_complete (lines 83-87) on the rows of one month group, as      *)
(* lines 219-229 and 574-576 call it: month_data holds rows dated in       *)
(* (year, month), in any order, a day possibly on several rows.            *)
(***************************************************************************)
\* Years with and without a February 29: 1900 and 2023 have none, 2000 and
\* 2024 have one.
MonthYears == {1900, 2000, 2023, 2024}

\* The days of the rows: the whole month, or the month but for its first,
\* its fifteenth or its last day, or every other day.
DayChoices(year, month) ==
    LET n == DaysInMonth(year, month)
    IN  {1..n, 2..n, (1..n) \ {15}, 1..(n - 1), {d \in 1..n : d % 2 = 1}}

\* The rows of the days, oldest or newest first, with `repeats` further
\* rows on the day `again`.
MonthRows(year, month, days, again, repeats, newest_first) ==
    LET sorted == SortedDates({<<year, month, d>> : d \in days})
        n == Len(sorted)
        ordered == IF newest_first THEN [i \in 1..n |-> sorted[n + 1 - i]]
                   ELSE sorted
    IN  [i \in 1..(n + repeats) |->
            ("Date" :> (IF i <= n THEN ordered[i] ELSE <<year, month, again>>))]

InitMonth ==
    /\ \E year \in MonthYears, month \in {1, 2, 4, 12} :
       \E days \in DayChoices(year, month), repeats \in 0..MaxRepeat :
       \E again \in {CHOOSE d \in days : TRUE}, newest_first \in BOOLEAN :
          month_call = [month_data |-> MonthRows(year, month, days, again,
                                                 repeats, newest_first),
                        year |-> year, month |-> month, returned |-> "nothing"]
    /\ pc = "month"
    /\ data = NoFrame
    /\ comparison = NoComparison
    /\ kol_aggregated_df = <<>>
    /\ agent_datas = <<>>
    /\ supervisor_dfs = <<>>
    /\ df = <<>>
    /\ processed_df = <<>>
    /\ aggregated_df = <<>>
    /\ bd_tables = <<>>
    /\ team_tables = <<>>
    /\ run = 1
    /\ first_out = NoOutputs
    /\ current = NoNumber
    /\ previous = NoNumber
    /\ change_text = ""

\* One call is_month_complete(month_data, year, month).
IsMonthComplete ==
    /\ pc = "month"
    /\ month_call' =
          [month_call EXCEPT !.returned =
              is_month_complete(month_call.month_data, month_call.year,
                                month_call.month)]
    /\ pc' = "answered"
    /\ UNCHANGED <<df, processed_df, aggregated_df, bd_tables, team_tables,
                   run, first_out, current, previous, kol_aggregated_df,
                   agent_datas, supervisor_dfs, change_text, data,
                   comparison>>

SpecMonth == InitMonth /\ [][IsMonthComplete]_vars

(***************************************************************************)
(* The comparator (create_supervisors_daily_report, lines 727-843).  Its   *)
(* argument data is a frame [columns, rows]: columns is the set of metric  *)
(* columns the frame has, a row is [supervisor, date, cols] with cols a    *)
(* function from columns to numbers (Number(n), n in mills, or NaN).  The  *)
(* frames have a date column and a supervisor column (lines 731-739 and    *)
(* 755-763 find them).                                                     *)
(***************************************************************************)
\* Lines 769-773, two of the eleven tracked metrics.
key_metrics == <<"FTD", "Total Vol ($)">>

\* Line 749, data.sort_values('Date_dt', ascending=False): the orders of
\* the rows that are newest first.  The default sort kind does not fix the
\* order of rows of one date.  Line 779 sorts each group's rows again; every
\* order of a group's rows it can produce is the order some member of this
\* set induces on the group, with the same order of first appearance of
\* the groups.
date_descending_orders(rows) ==
    {p \in Permutations(1..Len(rows)) :
        \A i, j \in 1..Len(rows) :
            i < j => ~DateLess(rows[p[i]].date, rows[p[j]].date)}

\* Lines 750-752 with days = 1: the rows dated latest_date - 1 day or later.
recent_data_of(sorted) ==
    LET latest_date == sorted[1].date
        Recent(r) == Ordinal(r.date) >= Ordinal(latest_date) - 1
    IN  SelectSeq(sorted, Recent)

\* Line 766, recent_data[supervisor_column].unique().
supervisors_of(recent_data) ==
    first_seen([i \in 1..Len(recent_data) |-> recent_data[i].supervisor])

\* Lines 778-779: the rows of one supervisor, newest first.
supervisor_data_of(recent_data, supervisor) ==
    LET Mine(r) == r.supervisor = supervisor IN SelectSeq(recent_data, Mine)

\* Line 785, supervisor_data.iloc[0].get('Total Vol ($)', 0).
latest_total_vol(supervisor_data) ==
    LET latest == supervisor_data[1]
    IN  IF "Total Vol ($)" \in DOMAIN latest.cols
        THEN latest.cols["Total Vol ($)"].v ELSE 0

\* A metric value that falls back on the row's FTD when the row has no
\* such column.
metric_value_of_any_column(row, metric) ==
    IF metric \in DOMAIN row.cols
    THEN (IF row.cols[metric].nan THEN 0 ELSE row.cols[metric].v)
    ELSE (IF row.cols["FTD"].nan THEN 0 ELSE row.cols["FTD"].v)

\* Lines 815-820 and 825-830: the metric of a row, 0 when the row has no
\* such column or the cell is NaN.
metric_value(row, metric) ==
    IF metric \in DOMAIN row.cols
    THEN (IF row.cols[metric].nan THEN 0 ELSE row.cols[metric].v)
    ELSE 0

\* A change rate against a previous of zero where line 834 writes '-'.
change_rate_from_zero(supervisor_data, metric) ==
    IF Len(supervisor_data) > 1
    THEN format_change_rate(Number(metric_value(supervisor_data[1], metric)),
                            Number(metric_value(supervisor_data[2], metric)))
    ELSE format_change_rate(Number(metric_value(supervisor_data[1], metric)),
                            Number(0))

\* Lines 806-807 and 823-834: latest_row is iloc[0], prev_row is iloc[1] or
\* None; without a prev_row the change rate is '-'.
change_rate_of(supervisor_data, metric) ==
    IF Len(supervisor_data) > 1
    THEN format_change_rate(Number(metric_value(supervisor_data[1], metric)),
                            Number(metric_value(supervisor_data[2], metric)))
    ELSE "-"

\* Line 837: f"{format_number(current_value)} ({change_rate})".
combined_text(supervisor_data, metric) ==
    format_number(metric_value(supervisor_data[1], metric))
        \o " (" \o change_rate_of(supervisor_data, metric) \o ")"

\* Lines 776-790: one item per supervisor, in order of first appearance.
supervisors_data_of(recent_data) ==
    LET supervisors == supervisors_of(recent_data)
    IN  [i \in 1..Len(supervisors) |->
            LET rows == supervisor_data_of(recent_data, supervisors[i])
            IN  [supervisor |-> supervisors[i], data |-> rows,
                 total_vol |-> latest_total_vol(rows)]]

\* A sort by total_vol that places the items of equal total_vol in the
\* reverse of their order.
sort_by_total_vol_reversing_ties(items) ==
    LET n == Len(items)
        placed == {<<Cardinality({j \in 1..n :
                        \/ items[j].total_vol > items[i].total_vol
                        \/ items[j].total_vol = items[i].total_vol /\ j > i}) + 1,
                     i>> : i \in 1..n}
    IN  [p \in 1..n |-> items[(CHOOSE q \in placed : q[1] = p)[2]]]

\* Line 793, supervisors_data.sort(key=total_vol, reverse=True): largest
\* first; list.sort is stable, with reverse=True as well.
sort_by_total_vol(items) ==
    LET n == Len(items)
        placed == {<<Cardinality({j \in 1..n :
                        \/ items[j].total_vol > items[i].total_vol
                        \/ items[j].total_vol = items[i].total_vol /\ j < i}) + 1,
                     i>> : i \in 1..n}
    IN  [p \in 1..n |-> items[(CHOOSE q \in placed : q[1] = p)[2]]]

\* Lines 798-840: one data_row per item, the supervisor and then one
\* combined text per tracked metric.
data_row_of(item) ==
    <<item.supervisor>>
        \o [k \in 1..Len(key_metrics) |-> combined_text(item.data, key_metrics[k])]

\* create_supervisors_daily_report(data, days=1) on the rows in the order
\* line 749 left them: None without a valid date (lines 744-746), else the
\* rows as sorted, the sorted items and the table.
create_supervisors_daily_report(sorted) ==
    IF Len(sorted) = 0 THEN NoComparison
    ELSE LET items == sort_by_total_vol(supervisors_data_of(recent_data_of(sorted)))
         IN  [none |-> FALSE, data |-> sorted, supervisors_data |-> items,
              table_data |-> [i \in 1..Len(items) |-> data_row_of(items[i])]]

\* The frames compared.  Supervisors S and T; March 3 2025 with the day
\* before (inside the window of days = 1), March 1 (outside) and February 27,
\* and a date that does not parse.
NameT == <<"T">>
CompareDates == {<<2025, 2, 27>>, <<2025, 3, 1>>, <<2025, 3, 2>>, <<2025, 3, 3>>, BadDate}

\* The cells of a row: FTD and Total Vol ($).
CompareCells ==
    {[ftd |-> Number(5000), vol |-> Number(1000000)],
     [ftd |-> Number(0), vol |-> Number(2500000)],
     [ftd |-> NaN, vol |-> Number(1000000)]}

\* main (line 1182) passes processed_df, whose columns carry the raw names:
\* of the tracked metrics it has FTD (and FTT, EFTTC) and not
\* 'Total Vol ($)'.  A frame under the report names has both.
RawNamed == {"FTD"}
ReportNamed == {"FTD", "Total Vol ($)"}

CompareRow(columns, supervisor, date, cells) ==
    [supervisor |-> supervisor, date |-> date,
     cols |-> [c \in columns |-> IF c = "FTD" THEN cells.ftd ELSE cells.vol]]

CompareRows(columns) ==
    {CompareRow(columns, s, d, c) :
        s \in {NameS, NameT}, d \in CompareDates, c \in CompareCells}

InitCompare ==
    /\ \E columns \in {RawNamed, ReportNamed} :
       \E rows \in SeqsUpTo(CompareRows(columns), MaxCompareRows) :
          data = [columns |-> columns, rows |-> rows]
    /\ comparison = NoComparison
    /\ kol_aggregated_df = <<>>
    /\ agent_datas = <<>>
    /\ supervisor_dfs = <<>>
    /\ pc = "compare"
    /\ df = <<>>
    /\ processed_df = <<>>
    /\ aggregated_df = <<>>
    /\ bd_tables = <<>>
    /\ team_tables = <<>>
    /\ run = 1
    /\ first_out = NoOutputs
    /\ current = NoNumber
    /\ previous = NoNumber
    /\ change_text = ""
    /\ month_call = NoMonthCall

\* Line 741: data['Date_dt'] = pd.to_datetime(data[date_column],
\* errors='coerce'), a column added to the frame the caller passed.
data_with_date_dt(frame) ==
    [columns |-> frame.columns \cup {"Date_dt"},
     rows |-> [i \in 1..Len(frame.rows) |->
                 [frame.rows[i] EXCEPT
                     !.cols = @ @@ ("Date_dt" :> frame.rows[i].date)]]]

\* One call create_supervisors_daily_report(data, days=1): line 741 adds
\* Date_dt to the caller's frame, line 742 copies the rows whose date
\* parses, line 749 sorts.
CreateSupervisorsDailyReport ==
    /\ pc = "compare"
    /\ data' = data_with_date_dt(data)
    /\ LET Parses(r) == IsValidDate(r.date)
           valid == SelectSeq(data_with_date_dt(data).rows, Parses)
       IN  \E p \in date_descending_orders(valid) :
              comparison' =
                 create_supervisors_daily_report([i \in 1..Len(valid) |-> valid[p[i]]])
    /\ pc' = "compared"
    /\ UNCHANGED <<df, processed_df, aggregated_df, bd_tables, team_tables,
                   run, first_out, current, previous, kol_aggregated_df,
                   agent_datas, supervisor_dfs, change_text, month_call>>

SpecCompare == InitCompare /\ [][CreateSupervisorsDailyReport]_vars

(***************************************************************************)
(* The three builders on a frame that lacks a metric column they name:     *)
(* the comparator on a frame under the raw names (no 'Total Vol ($)'), the *)
(* rollup builders on aggregated rows without one of the display columns.  *)
(***************************************************************************)
ColumnDates == {<<2025, 2, 28>>, <<2025, 3, 1>>, <<2025, 3, 3>>}
ColumnKeys == {<<d, dt>> : d \in {DimSA, DimSB}, dt \in ColumnDates}

WithoutColumn(row, col) == [c \in DOMAIN row \ {col} |-> row[c]]

InitColumns ==
    /\ \/ /\ \E rows \in SeqsUpTo(CompareRows(RawNamed), MaxCompareRows) :
                 data = [columns |-> RawNamed, rows |-> rows]
          /\ aggregated_df = <<>>
          /\ pc = "compare"
       \/ /\ \E keys \in SUBSET ColumnKeys, k \in 1..Len(MetricColumns) :
                /\ Cardinality(keys) \in 1..MaxColumnRows
                /\ aggregated_df =
                      [i \in 1..Cardinality(keys) |->
                          WithoutColumn(AggregatedFrame(keys)[i], MetricColumns[k])]
          /\ data = NoFrame
          /\ pc = "aggregated"
    /\ comparison = NoComparison
    /\ kol_aggregated_df = <<>>
    /\ agent_datas = <<>>
    /\ supervisor_dfs = <<>>
    /\ df = <<>>
    /\ processed_df = <<>>
    /\ bd_tables = <<>>
    /\ team_tables = <<>>
    /\ run = 1
    /\ first_out = NoOutputs
    /\ current = NoNumber
    /\ previous = NoNumber
    /\ change_text = ""
    /\ month_call = NoMonthCall

NextColumns ==
    \/ CreateSupervisorsDailyReport
    \/ \E d \in Dimensions(aggregated_df) : CreateBdReport(d)
    \/ EndBdReports
    \/ \E s \in group_by_supervisor(aggregated_df) : CreateSupervisorReport(s)
    \/ EndTeamReports

SpecColumns == InitColumns /\ [][NextColumns]_vars

(***************************************************************************)
(* The two aggregators on the same processed records: aggregate_data and   *)
(* aggregate_data_by_kol (generate_kol_reports, line 1055), on records of  *)
(* two dimensions and two dates with sub-agent k1, k2 or an empty cell.    *)
(***************************************************************************)
KolRecords ==
    {RawRecord(lp, k, d, KeyProfile) :
        lp \in {<<NameS, NameA>>, <<NameS, NameB>>},
        k \in {Kol1, Kol2, Empty},
        d \in {<<2025, 3, 1>>, <<2025, 3, 3>>}}

InitKol ==
    /\ df \in SeqsUpTo(KolRecords, MaxKolRecs)
    /\ InitRest

\* generate_kol_reports, line 1055: result = aggregate_data_by_kol(processed_df).
AggregateDataByKol ==
    /\ pc = "aggregated"
    /\ kol_aggregated_df' = aggregate_data_by_kol(processed_df)
    /\ pc' = "kol_aggregated"
    /\ UNCHANGED <<df, processed_df, aggregated_df, bd_tables, team_tables,
                   run, first_out, current, previous, agent_datas,
                   supervisor_dfs, change_text, data, comparison, month_call>>

NextKol ==
    \/ ProcessRawData
    \/ AggregateData
    \/ AggregateDataByKol

SpecKol == InitKol /\ [][NextKol]_vars

(***************************************************************************)
(* The rollups of several dimensions, interleaved.  The loop body of       *)
(* generate_reports (lines 1027-1029) in two steps per dimension, taken in *)
(* any order across the dimensions: the slice agent_data is taken (line    *)
(* 1028), then create_table_data builds the table from it (lines 195-271). *)
(***************************************************************************)
DimSAB == NameS \o Sep \o NameA \o NameB
SliceKeys ==
    {<<d, dt>> : d \in {DimSA, DimSB, DimSAB},
                 dt \in {<<2025, 2, 28>>, <<2025, 3, 1>>, <<2025, 3, 3>>, BadDate}}

InitSlices ==
    /\ \E keys \in SUBSET SliceKeys :
          /\ Cardinality(keys) \in 1..MaxSliceRows
          /\ aggregated_df = AggregatedFrame(keys)
    /\ pc = "aggregated"
    /\ df = <<>>
    /\ processed_df = <<>>
    /\ bd_tables = <<>>
    /\ team_tables = <<>>
    /\ run = 1
    /\ first_out = NoOutputs
    /\ current = NoNumber
    /\ previous = NoNumber
    /\ change_text = ""
    /\ month_call = NoMonthCall
    /\ data = NoFrame
    /\ comparison = NoComparison
    /\ kol_aggregated_df = <<>>
    /\ agent_datas = <<>>
    /\ supervisor_dfs = <<>>

\* Line 1028: agent_data = result[result['Dimension'] == dimension].copy().
TakeAgentData(dimension) ==
    /\ pc = "aggregated"
    /\ dimension \in Dimensions(aggregated_df) \ DOMAIN agent_datas
    /\ agent_datas' =
          (dimension :> rows_of_dimension(aggregated_df, dimension)) @@ agent_datas
    /\ UNCHANGED <<pc, df, processed_df, aggregated_df, bd_tables, team_tables,
                   run, first_out, current, previous, kol_aggregated_df,
                   supervisor_dfs, change_text, data, comparison, month_call>>

\* Lines 195-271: create_table_data(agent_data) on the slice taken; line 195
\* adds Date_dt to that slice.
CreateTableData(dimension) ==
    /\ pc = "aggregated"
    /\ dimension \in (DOMAIN agent_datas) \ DOMAIN bd_tables
    /\ bd_tables' =
          (dimension :> create_table_data(agent_datas[dimension])) @@ bd_tables
    /\ agent_datas' =
          [agent_datas EXCEPT ![dimension] = with_date_dt(agent_datas[dimension])]
    /\ UNCHANGED <<pc, df, processed_df, aggregated_df, team_tables, run,
                   first_out, current, previous, kol_aggregated_df,
                   supervisor_dfs, change_text, data, comparison, month_call>>

NextSlices ==
    \/ \E d \in Dimensions(aggregated_df) : TakeAgentData(d)
    \/ \E d \in Dimensions(aggregated_df) : CreateTableData(d)

SpecSlices == InitSlices /\ [][NextSlices]_vars

(***************************************************************************)
(* Properties.  Helpers to read an input and a produced table.             *)
(***************************************************************************)
SetMax(S) == CHOOSE x \in S : \A y \in S : y <= x
DatesOf(rows) == {rows[i]["Date"] : i \in 1..Len(rows)}
MonthsOf(rows) == {YearMonthOf(rows[i]) : i \in 1..Len(rows)}
RowsOnDate(rows, date) ==
    LET On(r) == r["Date"] = date IN SelectSeq(rows, On)
DaySum(rows, date, col) == SeqSum(Column(RowsOnDate(rows, date), col))
ColumnAt(i) == MetricColumns[i]

\* The valid input rows of the report of dimension d and of team s.
BdInput(d) == valid_rows(rows_of_dimension(aggregated_df, d))
TeamInput(s) == valid_rows(rows_of_team(aggregated_df, s))

LastRow(T) == T[Len(T)]
CountLabel(T, label) == Cardinality({i \in 1..Len(T) : T[i][1] = label})

\* Flow metrics are summed over all rows; a gauge metric of one dimension is
\* the maximum of its rows; a gauge metric of a team is the maximum over the
\* dates of the team's sum on that date.
FlowOverAll(rows, col) == SeqSum(Column(rows, col))
GaugeOverRows(rows, col) == SetMax({rows[i][col] : i \in 1..Len(rows)})
GaugeOverDays(rows, col) == SetMax({DaySum(rows, dt, col) : dt \in DatesOf(rows)})

\* The distinct sub-agent identifiers among the processed records with a
\* valid date that belong to one of the dimensions ds.
DistinctKols(ds) ==
    {processed_df[i].kol : i \in {j \in 1..Len(processed_df) :
        processed_df[j].dimension \in ds /\ IsValidDate(processed_df[j].date)}}

\* C1 (as amended): for every dimension and every team with a validly dated
\* row, the table ends with exactly one TOTAL row; its value for a flow
\* metric is the sum over all validly dated input rows, whatever their
\* months; its value for DAU and Activate KOL is the maximum of the
\* dimension's rows, respectively of the team's per-date sums.
C1_TotalRow ==
    /\ \A d \in DOMAIN bd_tables :
          LET rows == BdInput(d)
              T == bd_tables[d].table_data
          IN  rows # <<>> =>
                /\ ~bd_tables[d].none
                /\ CountLabel(T, "TOTAL") = 1
                /\ LastRow(T)[1] = "TOTAL"
                /\ \A i \in 1..Len(MetricColumns) :
                      LastRow(T)[i + 1] =
                          format_number(IF ColumnAt(i) \in GaugeColumns
                                        THEN GaugeOverRows(rows, ColumnAt(i))
                                        ELSE FlowOverAll(rows, ColumnAt(i)))
    /\ \A s \in DOMAIN team_tables :
          LET rows == TeamInput(s)
              T == team_tables[s].table_data
          IN  rows # <<>> =>
                /\ ~team_tables[s].none
                /\ CountLabel(T, "TOTAL") = 1
                /\ LastRow(T)[1] = "TOTAL"
                /\ \A i \in 1..Len(MetricColumns) :
                      LastRow(T)[i + 1] =
                          format_number(IF ColumnAt(i) \in GaugeColumns
                                        THEN GaugeOverDays(rows, ColumnAt(i))
                                        ELSE FlowOverAll(rows, ColumnAt(i)))

\* C1 witness: a dimension table and a team table, each built from rows in
\* two months (the earlier one suppressed) and ending with the TOTAL row.
C1_Witness ==
    /\ \E d \in DOMAIN bd_tables :
          /\ Cardinality(MonthsOf(BdInput(d))) >= 2
          /\ LastRow(bd_tables[d].table_data)[1] = "TOTAL"
    /\ \E s \in DOMAIN team_tables :
          /\ Cardinality(MonthsOf(TeamInput(s))) >= 2
          /\ LastRow(team_tables[s].table_data)[1] = "TOTAL"

\* C1 as stated: the TOTAL value of every metric is the registry aggregator
\* over all validly dated input rows: sum for a flow, max over the rows for
\* the gauge DAU, distinct count of sub-agents for Activate KOL.
RegistryOverAll(rows, col, ds) ==
    IF col = "DAU" THEN GaugeOverRows(rows, col)
    ELSE IF col = "Activate KOL" THEN Cardinality(DistinctKols(ds)) * 1000
    ELSE FlowOverAll(rows, col)

C1_Original ==
    /\ \A d \in DOMAIN bd_tables :
          LET rows == BdInput(d)
              T == bd_tables[d].table_data
          IN  rows # <<>> =>
                \A i \in 1..Len(MetricColumns) :
                    LastRow(T)[i + 1] =
                        format_number(RegistryOverAll(rows, ColumnAt(i), {d}))
    /\ \A s \in DOMAIN team_tables :
          LET rows == TeamInput(s)
              T == team_tables[s].table_data
          IN  rows # <<>> =>
                \A i \in 1..Len(MetricColumns) :
                    LastRow(T)[i + 1] =
                        format_number(RegistryOverAll(rows, ColumnAt(i),
                                                      Dimensions(rows)))

(***************************************************************************)
(* Months of an input: the current (latest) one, the suppressed ones.      *)
(***************************************************************************)
MonthLess(a, b) == a[1] < b[1] \/ (a[1] = b[1] /\ a[2] < b[2])
LatestMonth(rows) ==
    CHOOSE ym \in MonthsOf(rows) : \A other \in MonthsOf(rows) : ~MonthLess(ym, other)
DaysPresent(rows, ym) ==
    {rows[i]["Date"][3] : i \in {j \in 1..Len(rows) : YearMonthOf(rows[j]) = ym}}
IsSuppressed(rows, ym) ==
    /\ ym \in MonthsOf(rows)
    /\ ym # LatestMonth(rows)
    /\ Cardinality(DaysPresent(rows, ym)) < DaysInMonth(ym[1], ym[2])
SuppressedMonths(rows) == {ym \in MonthsOf(rows) : IsSuppressed(rows, ym)}

\* No row of table T is a daily row dated in month ym or its month summary.
NoRowOfMonth(T, ym) ==
    /\ CountLabel(T, MonthLabel(ym[1], ym[2])) = 0
    /\ \A day \in 1..DaysInMonth(ym[1], ym[2]) :
          CountLabel(T, DayLabel(<<ym[1], ym[2], day>>)) = 0

\* C2: for every dimension table and every team table, a month of the input
\* that is not the latest month and has fewer distinct days than the calendar
\* month has no row in the table: no daily row dated in it, no month summary
\* labelled with it.
C2_SuppressedMonthHasNoRow ==
    /\ \A d \in DOMAIN bd_tables :
          \A ym \in SuppressedMonths(BdInput(d)) :
              NoRowOfMonth(bd_tables[d].table_data, ym)
    /\ \A s \in DOMAIN team_tables :
          \A ym \in SuppressedMonths(TeamInput(s)) :
              NoRowOfMonth(team_tables[s].table_data, ym)

\* C2 witness: a dimension table and a team table built from an input whose
\* February lacks exactly one day and is followed by a March row, next to a
\* whole January that does get its month summary.
C2_Witness ==
    /\ \E d \in DOMAIN bd_tables :
          /\ <<2025, 2>> \in SuppressedMonths(BdInput(d))
          /\ Cardinality(DaysPresent(BdInput(d), <<2025, 2>>)) = 27
          /\ CountLabel(bd_tables[d].table_data, "2025/01") = 1
          /\ CountLabel(bd_tables[d].table_data, "2025/03") = 1
    /\ \E s \in DOMAIN team_tables :
          /\ <<2025, 2>> \in SuppressedMonths(TeamInput(s))
          /\ Cardinality(DaysPresent(TeamInput(s), <<2025, 2>>)) = 27
          /\ CountLabel(team_tables[s].table_data, "2025/01") = 1
          /\ CountLabel(team_tables[s].table_data, "2025/03") = 1

(***************************************************************************)
(* ISO weeks of a team input.                                              *)
(***************************************************************************)
MinDate(S) == CHOOSE d \in S : \A e \in S : ~DateLess(e, d)
MaxDate(S) == CHOOSE d \in S : \A e \in S : ~DateLess(d, e)
WeeksOf(rows) == {YearWeek(dt) : dt \in DatesOf(rows)}
WeekDates(rows, wk) == {dt \in DatesOf(rows) : YearWeek(dt) = wk}
RowsInWeek(rows, wk) ==
    LET In(r) == YearWeek(r["Date"]) = wk IN SelectSeq(rows, In)
InLatestMonth(rows, dt) == <<dt[1], dt[2]>> = LatestMonth(rows)
\* The weeks with a present day of the latest month and one of an earlier month.
StraddlingWeeks(rows) ==
    {wk \in WeeksOf(rows) :
        /\ \E dt \in WeekDates(rows, wk) : InLatestMonth(rows, dt)
        /\ \E dt \in WeekDates(rows, wk) : ~InLatestMonth(rows, dt)}

\* The week summary row expected for week wk of a team input: labelled by
\* the first and last present day of the week, flows summed over all rows
\* of the week, gauges the largest per-date team sum of the week.
ExpectedWeekRow(rows, wk) ==
    <<WeekLabel(MinDate(WeekDates(rows, wk)), MaxDate(WeekDates(rows, wk)))>>
        \o [i \in 1..Len(MetricColumns) |->
              format_number(IF ColumnAt(i) \in GaugeColumns
                            THEN SetMax({DaySum(rows, dt, ColumnAt(i)) :
                                            dt \in WeekDates(rows, wk)})
                            ELSE FlowOverAll(RowsInWeek(rows, wk), ColumnAt(i)))]

\* C3: in a team table, every ISO week with a present day in the latest
\* month and a present day in the month before has exactly one week summary
\* row, whose values are taken over all present days of that week in the
\* whole date range (sum; for DAU and Activate KOL the maximum over the
\* days), the earlier month's days included.
C3_StraddlingWeekOverFullRange ==
    \A s \in DOMAIN team_tables :
        LET rows == TeamInput(s)
            T == team_tables[s].table_data
        IN  rows # <<>> =>
              \A wk \in StraddlingWeeks(rows) :
                  /\ CountLabel(T, ExpectedWeekRow(rows, wk)[1]) = 1
                  /\ \E i \in 1..Len(T) : T[i] = ExpectedWeekRow(rows, wk)

\* C3 witness: a team table with the summary row of week 9 of 2025
\* (02/24 - 03/02) built from February days, which have no daily row, and
\* March 1, which has one.
C3_Witness ==
    \E s \in DOMAIN team_tables :
        LET rows == TeamInput(s)
            T == team_tables[s].table_data
        IN  /\ rows # <<>>
            /\ \E wk \in StraddlingWeeks(rows) :
                  /\ Cardinality(WeekDates(rows, wk)) >= 3
                  /\ ExpectedWeekRow(rows, wk)[1] = "02/24~03/01"
                  /\ CountLabel(T, "02/24~03/01") = 1
            /\ CountLabel(T, "2025-02-28") = 0
            /\ CountLabel(T, "2025-03-01") = 1

(***************************************************************************)
(* The dimension key.                                                      *)
(***************************************************************************)
Dash == <<"-">>
IsPlainLevel(level) == ~Contains(level, Dash) /\ Strip(level) = level

\* C4 as stated: a processed record with levels (Alice, empty) has key
\* 'Alice', with levels (empty, Bob) key 'Bob', with levels (Alice, Bob) key
\* 'Alice - Bob'; and for levels that hold no dash and no outer blanks, the
\* key neither starts nor ends with a dash or a blank and holds no doubled
\* separator.
C4_Original ==
    \A i \in 1..Len(processed_df) :
        LET r == processed_df[i]
        IN  /\ (r.supervisor = Alice /\ r.bd = Empty) => r.dimension = Alice
            /\ (r.supervisor = Empty /\ r.bd = Bob) => r.dimension = Bob
            /\ (r.supervisor = Alice /\ r.bd = Bob) => r.dimension = Alice \o Sep \o Bob
            /\ (IsPlainLevel(r.supervisor) /\ IsPlainLevel(r.bd)) =>
                  /\ ~StartsWith(r.dimension, Dash)
                  /\ ~EndsWith(r.dimension, Dash)
                  /\ Strip(r.dimension) = r.dimension
                  /\ ~Contains(r.dimension, DoubleSep)

(***************************************************************************)
(* The exclusion of departed staff.                                        *)
(***************************************************************************)
\* A raw record with the marker in a level or in the key built from them.
HasMarker(rec) ==
    \/ Contains(rec.supervisor, Marker)
    \/ Contains(rec.bd, Marker)
    \/ Contains(dimension_key(canonical_level(rec.supervisor),
                              canonical_level(rec.bd)), Marker)
KeptInputs == {i \in 1..Len(df) : ~HasMarker(df[i])}
RECURSIVE SumOver(_, _)
SumOver(S, val) ==
    IF S = {} THEN 0
    ELSE LET i == CHOOSE x \in S : TRUE IN val[i] + SumOver(S \ {i}, val)

\* C5: once process_raw_data has run, no surviving record holds the marker
\* in its supervisor level, its representative level or its key, and the
\* survivors are exactly the input records that hold it in none of the
\* three; the aggregated rows hold no marker, their registrations add up to
\* those of the unmarked input records, and every dimension table is of an
\* unmarked key with a TOTAL over the unmarked records of that key only.
C5_DepartedExcluded ==
    LET RegOf == [i \in 1..Len(df) |-> clean_numeric(df[i].reg)]
        KeyOf == [i \in 1..Len(df) |->
                    dimension_key(canonical_level(df[i].supervisor),
                                  canonical_level(df[i].bd))]
    IN  /\ pc # "start" =>
              /\ \A j \in 1..Len(processed_df) :
                    /\ ~Contains(processed_df[j].supervisor, Marker)
                    /\ ~Contains(processed_df[j].bd, Marker)
                    /\ ~Contains(processed_df[j].dimension, Marker)
              /\ Len(processed_df) = Cardinality(KeptInputs)
              /\ \A i \in KeptInputs :
                    \E j \in 1..Len(processed_df) : processed_df[j].kol = df[i].kol
        /\ pc \notin {"start", "processed"} =>
              /\ \A j \in 1..Len(aggregated_df) :
                    ~Contains(aggregated_df[j]["Dimension"], Marker)
              /\ FlowOverAll(aggregated_df, "Reg") = SumOver(KeptInputs, RegOf)
        /\ \A d \in DOMAIN bd_tables :
              LET mine == {i \in KeptInputs : KeyOf[i] = d}
              IN  /\ ~Contains(d, Marker)
                  /\ mine # {}
                  /\ LastRow(bd_tables[d].table_data)[2]
                        = format_number(SumOver(mine, RegOf))

\* C5 witness: the run is over, the first record held the marker in its
\* representative level only and is gone, the ordinary record has its table.
C5_Witness ==
    /\ pc = "done"
    /\ Contains(df[1].bd, Marker)
    /\ ~Contains(df[1].supervisor, Marker)
    /\ Len(processed_df) = 1
    /\ DOMAIN bd_tables = {DimSA}

(***************************************************************************)
(* The change rate.                                                        *)
(***************************************************************************)
\* text is n tenths printed with one decimal, for an n within half a tenth
\* of 1000 * num / den tenths.
IsRateToOneDecimal(text, num, den) ==
    \E n \in {(1000 * num) \div den, ((1000 * num) \div den) + 1} :
        /\ 2 * Abs(1000 * num - n * den) <= den
        /\ text = NatText(n \div 10) \o "." \o D1(n % 10)

Is(cur, prev, c, p) == cur = Number(c) /\ prev = Number(p)

\* C6: after format_change_rate(current, previous): (100, 0) gives '+100%',
\* (0, 0) '0%', (50, 100) '-50.0%', (150, 100) '+50.0%'; with previous zero
\* or undefined the text is '+100%' if current > 0 and '0%' otherwise; with
\* previous non-zero and current a number the text is '0%' if they are equal
\* and otherwise the rate (current - previous) / |previous| * 100 to one
\* decimal followed by '%', with a leading '+' if it is positive and '-' if
\* it is negative.
C6_ChangeRateText ==
    pc = "rated" =>
        /\ Is(current, previous, 100, 0) => change_text = "+100%"
        /\ Is(current, previous, 0, 0) => change_text = "0%"
        /\ Is(current, previous, 50, 100) => change_text = "-50.0%"
        /\ Is(current, previous, 150, 100) => change_text = "+50.0%"
        /\ (previous.nan \/ previous.v = 0) =>
              change_text = (IF ~current.nan /\ current.v > 0 THEN "+100%" ELSE "0%")
        /\ (~previous.nan /\ previous.v # 0 /\ ~current.nan) =>
              LET diff == current.v - previous.v
              IN  \/ diff = 0 /\ change_text = "0%"
                  \/ /\ diff # 0
                     /\ \E digits \in {OneDecimal(t) : t \in
                              {(1000 * Abs(diff)) \div Abs(previous.v),
                               ((1000 * Abs(diff)) \div Abs(previous.v)) + 1}} :
                           /\ IsRateToOneDecimal(digits, Abs(diff), Abs(previous.v))
                           /\ change_text =
                                 (IF diff > 0 THEN "+" ELSE "-") \o digits \o "%"

\* C6 witness: the rate of 50 against 100 has been formatted, as '-50.0%'.
C6_Witness ==
    /\ pc = "rated"
    /\ Is(current, previous, 50, 100)
    /\ change_text = "-50.0%"

(***************************************************************************)
(* The derived total volume.                                               *)
(***************************************************************************)
\* C7 as stated: in every aggregated row, 'Total Vol ($)' is the sum of the
\* row's 'Spot Vol ($)' and 'Futures Vol ($)' as returned.
C7_Original ==
    \A i \in 1..Len(aggregated_df) :
        aggregated_df[i]["Total Vol ($)"] =
            aggregated_df[i]["Spot Vol ($)"] + aggregated_df[i]["Futures Vol ($)"]

(***************************************************************************)
(* Running twice.                                                          *)
(***************************************************************************)
Outputs == [aggregated |-> aggregated_df, bd |-> bd_tables, team |-> team_tables]

WithoutSuppressed(rows) ==
    LET gone == SuppressedMonths(rows)
        Stays(r) == YearMonthOf(r) \notin gone
    IN  SelectSeq(rows, Stays)

\* The daily rows and month summary rows of a table over the input rows.
DayAndMonthRows(T, rows) ==
    LET labels == {DayLabel(dt) : dt \in DatesOf(rows)}
                    \cup {MonthLabel(ym[1], ym[2]) : ym \in MonthsOf(rows)}
        IsOne(row) == row[1] \in labels
    IN  SelectSeq(T, IsOne)

\* C9 (as amended): the rows of a suppressed month contribute to no daily
\* row and no month summary row: the daily and month summary rows of every
\* dimension table and of every team table are those of the table built
\* from the input without the rows of its suppressed months.
C9_SuppressedMonthInNoDayOrMonthRow ==
    /\ \A d \in DOMAIN bd_tables :
          LET rows == BdInput(d)
          IN  rows # <<>> =>
                DayAndMonthRows(bd_tables[d].table_data, rows) =
                    DayAndMonthRows(
                        create_table_data(WithoutSuppressed(rows)).table_data, rows)
    /\ \A s \in DOMAIN team_tables :
          LET rows == TeamInput(s)
          IN  rows # <<>> =>
                DayAndMonthRows(team_tables[s].table_data, rows) =
                    DayAndMonthRows(
                        create_supervisor_report(WithoutSuppressed(rows)).table_data,
                        rows)

\* C9 witness: a dimension table and a team table from an input with a
\* suppressed month of at least 27 days; the team's input has a week shared
\* by that month and the latest one.
C9_Witness ==
    /\ \E d \in DOMAIN bd_tables :
          /\ ~bd_tables[d].none
          /\ \E ym \in SuppressedMonths(BdInput(d)) :
                Cardinality(DaysPresent(BdInput(d), ym)) >= 27
    /\ \E s \in DOMAIN team_tables :
          /\ ~team_tables[s].none
          /\ \E ym \in SuppressedMonths(TeamInput(s)) :
                Cardinality(DaysPresent(TeamInput(s), ym)) >= 27
          /\ StraddlingWeeks(TeamInput(s)) # {}

\* C9 as stated: the rows of a suppressed month contribute to no row at all:
\* every table is the table built from the input without those rows.
C9_Original ==
    /\ \A d \in DOMAIN bd_tables :
          LET rows == BdInput(d)
          IN  rows # <<>> =>
                bd_tables[d].table_data =
                    create_table_data(WithoutSuppressed(rows)).table_data
    /\ \A s \in DOMAIN team_tables :
          LET rows == TeamInput(s)
          IN  rows # <<>> =>
                team_tables[s].table_data =
                    create_supervisor_report(WithoutSuppressed(rows)).table_data

(***************************************************************************)
(* The week summary rows.                                                  *)
(***************************************************************************)
\* The ISO weeks with a present day of the latest month.
CurrentWeeks(rows) ==
    {YearWeek(dt) : dt \in {x \in DatesOf(rows) : InLatestMonth(rows, x)}}

\* The rows of a table that are no daily row, no month summary and no TOTAL.
OtherRows(T, rows) ==
    LET labels == {DayLabel(dt) : dt \in DatesOf(rows)}
                    \cup {MonthLabel(ym[1], ym[2]) : ym \in MonthsOf(rows)}
                    \cup {"TOTAL"}
        IsOther(row) == row[1] \notin labels
    IN  SelectSeq(T, IsOther)

\* The label of the summary row of week wk of an input.
WeekLabelOf(rows, wk) ==
    WeekLabel(MinDate(WeekDates(rows, wk)), MaxDate(WeekDates(rows, wk)))

\* The table has one daily row for each present day of the latest month and
\* one summary row of the latest month.
HasDaysAndMonth(T, rows) ==
    /\ \A dt \in DatesOf(rows) :
          CountLabel(T, DayLabel(dt)) = (IF InLatestMonth(rows, dt) THEN 1 ELSE 0)
    /\ CountLabel(T, MonthLabel(LatestMonth(rows)[1], LatestMonth(rows)[2])) = 1

\* C10 (as amended): every team table holds, besides one daily row for each
\* day of the latest month and the month summary, exactly one week summary
\* row for each ISO week with a day of the latest month, and no other row;
\* every dimension table holds the daily rows and the month summary and no
\* week summary row at all.
C10_WeekRowsInTeamTablesOnly ==
    /\ \A s \in DOMAIN team_tables :
          LET rows == TeamInput(s)
              T == team_tables[s].table_data
          IN  rows # <<>> =>
                /\ HasDaysAndMonth(T, rows)
                /\ \A wk \in CurrentWeeks(rows) :
                      CountLabel(T, WeekLabelOf(rows, wk)) = 1
                /\ Len(OtherRows(T, rows)) = Cardinality(CurrentWeeks(rows))
    /\ \A d \in DOMAIN bd_tables :
          LET rows == BdInput(d)
              T == bd_tables[d].table_data
          IN  rows # <<>> =>
                /\ HasDaysAndMonth(T, rows)
                /\ OtherRows(T, rows) = <<>>

\* C10 witness: a team table with the summaries of two weeks of its latest
\* month, and a dimension table whose latest month has days in two weeks.
C10_Witness ==
    /\ \E s \in DOMAIN team_tables :
          /\ TeamInput(s) # <<>>
          /\ Cardinality(CurrentWeeks(TeamInput(s))) >= 2
          /\ Len(OtherRows(team_tables[s].table_data, TeamInput(s))) >= 2
    /\ \E d \in DOMAIN bd_tables :
          /\ BdInput(d) # <<>>
          /\ ~bd_tables[d].none
          /\ Cardinality(CurrentWeeks(BdInput(d))) >= 2

\* C10 as stated: every dimension table and every team table holds exactly
\* one week summary row for each ISO week with a day of the latest month.
C10_Original ==
    /\ \A s \in DOMAIN team_tables :
          LET rows == TeamInput(s)
              T == team_tables[s].table_data
          IN  rows # <<>> =>
                /\ \A wk \in CurrentWeeks(rows) :
                      CountLabel(T, WeekLabelOf(rows, wk)) = 1
                /\ Len(OtherRows(T, rows)) = Cardinality(CurrentWeeks(rows))
    /\ \A d \in DOMAIN bd_tables :
          LET rows == BdInput(d)
              T == bd_tables[d].table_data
          IN  rows # <<>> =>
                /\ \A wk \in CurrentWeeks(rows) :
                      CountLabel(T, WeekLabelOf(rows, wk)) = 1
                /\ Len(OtherRows(T, rows)) = Cardinality(CurrentWeeks(rows))

(***************************************************************************)
(* The comparator, read off its argument data.                             *)
(***************************************************************************)
CompareNames == {NameS, NameT}
Compared == pc = "compared"

\* The positions of the rows of data whose date parses, the newest of their
\* dates, and the positions inside the lookback window of one day.
DatedAt == {i \in 1..Len(data.rows) : IsValidDate(data.rows[i].date)}
NewestDay == SetMax({Ordinal(data.rows[i].date) : i \in DatedAt})
InWindow == {i \in DatedAt : Ordinal(data.rows[i].date) >= NewestDay - 1}
WindowOf(s) == {i \in InWindow : data.rows[i].supervisor = s}

\* The value of a tracked metric in row i of data: zero for NaN and for a
\* column the frame does not have.
ValueAt(i, metric) ==
    IF metric \notin data.columns THEN 0
    ELSE IF data.rows[i].cols[metric].nan THEN 0
    ELSE data.rows[i].cols[metric].v

\* The table has a row for supervisor s that shows, for every tracked
\* metric, the value of row i and as its change the text up when the value
\* is above zero and the text flat otherwise.
ShowsAlone(s, i, up, flat) ==
    \E r \in 1..Len(comparison.table_data) :
        /\ comparison.table_data[r][1] = s
        /\ \A k \in 1..Len(key_metrics) :
              comparison.table_data[r][k + 1] =
                 format_number(ValueAt(i, key_metrics[k])) \o " ("
                    \o (IF ValueAt(i, key_metrics[k]) > 0 THEN up ELSE flat) \o ")"

\* C11 (as the code has it): a group with a current row and no previous
\* row inside the lookback window shows '-' as the change of every tracked
\* metric, whatever the current value.
C11_NoPreviousShowsDash ==
    Compared =>
        \A s \in CompareNames : \A i \in WindowOf(s) :
            WindowOf(s) = {i} => ShowsAlone(s, i, "-", "-")

\* A group with one row in the window, a positive FTD in it, and an older
\* row outside the window.
C11_Witness ==
    /\ Compared
    /\ \E i \in WindowOf(NameS) :
          /\ WindowOf(NameS) = {i}
          /\ ValueAt(i, "FTD") > 0
          /\ \E j \in DatedAt \ InWindow : data.rows[j].supervisor = NameS
          /\ ShowsAlone(NameS, i, "-", "-")

\* C11 as stated: such a group shows '+100%' for a current value above
\* zero and '0%' otherwise.
C11_Original ==
    Compared =>
        \A s \in CompareNames : \A i \in WindowOf(s) :
            WindowOf(s) = {i} => ShowsAlone(s, i, "+100%", "0%")

\* C12 as stated: a dimension without a row whose date parses ends report
\* creation with "nothing to report" and never with an error: for such a
\* dimension create_bd_report returns None and main goes on, and
\* create_supervisor_report returns None for a team without such a row.
C12_Original ==
    /\ \A d \in DOMAIN bd_tables : bd_tables[d].none => pc # "TypeError"
    /\ \A s \in DOMAIN team_tables :
          valid_rows(rows_of_team(aggregated_df, s)) = <<>> => team_tables[s].none

(***************************************************************************)
(* is_month_complete, read off its arguments.                              *)
(***************************************************************************)
\* The calendar length of the months of MonthYears, written out: of these
\* years 2000 and 2024 are leap years, 1900 and 2023 are not.
CalendarDays(year, month) ==
    IF month = 2 THEN (IF year \in {2000, 2024} THEN 29 ELSE 28)
    ELSE IF month \in {4, 6, 9, 11} THEN 30
    ELSE 31

DistinctDays ==
    {month_call.month_data[i]["Date"][3] : i \in 1..Len(month_call.month_data)}

\* C13: is_month_complete returns true exactly when the number of distinct
\* days of the month among the rows is at least the calendar length of the
\* month, February 29 included; which days are missing, how the rows are
\* ordered and how many rows a day has make no difference.
C13_CompleteIffAllDaysPresent ==
    pc = "answered" =>
        (month_call.returned
            <=> Cardinality(DistinctDays)
                   >= CalendarDays(month_call.year, month_call.month))

\* February 2024 with 29 rows or more on 28 distinct days: not complete.
C13_Witness ==
    /\ pc = "answered"
    /\ month_call.year = 2024
    /\ month_call.month = 2
    /\ Len(month_call.month_data) >= 29
    /\ Cardinality(DistinctDays) = 28
    /\ month_call.returned = FALSE

\* Row r of the comparator's table: its supervisor, the row of data the
\* code took as current (latest_row), and the sort value read from it.
SupervisorAt(r) == comparison.table_data[r][1]
LatestRowAt(r) == comparison.supervisors_data[r].data[1]
SortValueAt(r) ==
    IF "Total Vol ($)" \in data.columns
    THEN LatestRowAt(r).cols["Total Vol ($)"].v ELSE 0

\* Where supervisor s first appears in the date-descending data.
FirstAppearance(s) ==
    CHOOSE i \in 1..Len(comparison.data) :
        /\ comparison.data[i].supervisor = s
        /\ \A j \in 1..(i - 1) : comparison.data[j].supervisor # s

\* C14: the rows of the comparator's table are in descending order of the
\* 'Total Vol ($)' of each group's current row, and groups of equal value
\* are in the order of their first appearance in the date-descending data.
C14_OrderedByTotalVol ==
    Compared =>
        \A r, q \in 1..Len(comparison.table_data) :
            r < q =>
                /\ SortValueAt(r) >= SortValueAt(q)
                /\ SortValueAt(r) = SortValueAt(q) =>
                      FirstAppearance(SupervisorAt(r)) < FirstAppearance(SupervisorAt(q))

\* Two groups of which the one that appears second in the data has the
\* larger current 'Total Vol ($)' and comes first in the table.
C14_Witness ==
    /\ Compared
    /\ Len(comparison.table_data) = 2
    /\ SortValueAt(1) > SortValueAt(2)
    /\ FirstAppearance(SupervisorAt(1)) > FirstAppearance(SupervisorAt(2))

\* C15 as stated: the current row of a group is a row of the group's latest
\* date, and the previous row, when there is one, has a strictly earlier
\* date: two rows of one date are never compared.
C15_Original ==
    Compared =>
        \A r \in 1..Len(comparison.supervisors_data) :
            LET rows == comparison.supervisors_data[r].data
            IN  /\ \A i \in WindowOf(SupervisorAt(r)) :
                      ~DateLess(rows[1].date, data.rows[i].date)
                /\ Len(rows) > 1 => DateLess(rows[2].date, rows[1].date)

(***************************************************************************)
(* The builders on a frame that lacks a metric column.                     *)
(***************************************************************************)
\* The tracked metrics the comparator's frame lacks, at their place in a
\* data_row.
LackingAt == {k \in 1..Len(key_metrics) : key_metrics[k] \notin data.columns}

\* The display columns the rows of dimension d have.
PresentColumns(d) ==
    LET row == BdInput(d)[1]
        Has(col) == col \in DOMAIN row
    IN  SelectSeq(display_columns, Has)

LacksColumn(rows) ==
    \E k \in 1..Len(display_columns) : display_columns[k] \notin DOMAIN rows[1]

\* C16 (as the code has it): of the three builders only
\* create_supervisor_report fails, with KeyError, on a frame that lacks a
\* metric column it names.  The comparator takes a tracked metric its frame
\* lacks as zero and shows '0' with the change '0%' or '-';
\* create_table_data leaves a display column its frame lacks out of the
\* table and raises nothing.
C16_MissingMetricIsZeroOrOmitted ==
    /\ Compared =>
          /\ comparison.none <=> DatedAt = {}
          /\ \A r \in 1..Len(comparison.table_data) : \A k \in LackingAt :
                comparison.table_data[r][k + 1] \in {"0 (0%)", "0 (-)"}
    /\ \A d \in DOMAIN bd_tables :
          /\ ~bd_tables[d].none
          /\ bd_tables[d].available_columns = PresentColumns(d)
          /\ \A r \in 1..Len(bd_tables[d].table_data) :
                Len(bd_tables[d].table_data[r]) = Len(PresentColumns(d))
    /\ \A s \in DOMAIN team_tables :
          LacksColumn(aggregated_df) => team_tables[s] = KeyError
    /\ pc # "TypeError"

\* The comparator on a frame without 'Total Vol ($)' shows a group with a
\* previous row and a positive FTD, its 'Total Vol ($)' as '0 (0%)'.
C16_Witness ==
    /\ Compared
    /\ LackingAt = {2}
    /\ \E r \in 1..Len(comparison.table_data) :
          /\ Len(comparison.supervisors_data[r].data) > 1
          /\ ValueAt(CHOOSE i \in WindowOf(SupervisorAt(r)) :
                        data.rows[i] = LatestRowAt(r), "FTD") > 0
          /\ comparison.table_data[r][3] = "0 (0%)"

\* C16 as stated: a builder given a frame that lacks a metric it names
\* fails: the comparator builds no table, create_table_data builds no table,
\* create_supervisor_report raises.
C16_Original ==
    /\ (Compared /\ LackingAt # {}) => comparison.table_data = <<>>
    /\ \A d \in DOMAIN bd_tables :
          LacksColumn(BdInput(d)) => bd_tables[d].table_data = <<>>
    /\ \A s \in DOMAIN team_tables :
          LacksColumn(aggregated_df) => team_tables[s] = KeyError

(***************************************************************************)
(* Lenient ingestion.                                                      *)
(***************************************************************************)
\* The raw records with every non-numeric metric cell set to zero and the
\* records whose date does not parse left out.
AsIfClean(frame) ==
    LET Dated(rec) == IsValidDate(rec.date)
    IN  SelectSeq([i \in 1..Len(frame) |-> clean_columns(frame[i])], Dated)

\* The tables the pipeline builds from a frame of raw records.
AggregatedOf(frame) == aggregate_data(process_raw_data(frame))
BdTablesOf(frame) ==
    [d \in Dimensions(AggregatedOf(frame)) |->
        create_table_data(rows_of_dimension(AggregatedOf(frame), d))]
TeamTablesOf(frame) ==
    [s \in group_by_supervisor(AggregatedOf(frame)) |->
        create_supervisor_report(rows_of_team(AggregatedOf(frame), s))]

\* C17 as stated: a non-numeric metric text counts as zero, a record whose
\* date does not parse is dropped by the rollup builders, no error is
\* raised, and the tables are those of the input with the bad values set to
\* zero and the undated records left out.
C17_Original ==
    /\ pc # "TypeError"
    /\ (run = 1 /\ pc \in {"team", "done"}) => bd_tables = BdTablesOf(AsIfClean(df))
    /\ (run = 1 /\ pc = "done") => team_tables = TeamTablesOf(AsIfClean(df))

(***************************************************************************)
(* The dimension key and the hierarchy labels.                             *)
(***************************************************************************)
\* The non-empty hierarchy labels of a kept record, in order.
LabelsOf(r) ==
    LET NonEmpty(level) == level # Empty
    IN  SelectSeq(<<r.supervisor, r.bd>>, NonEmpty)

\* C18 as stated: two kept records have the same dimension key exactly when
\* their sequences of non-empty hierarchy labels are the same.
C18_Original ==
    pc = "processed" =>
        \A i, j \in 1..Len(processed_df) :
            processed_df[i].dimension = processed_df[j].dimension
                <=> LabelsOf(processed_df[i]) = LabelsOf(processed_df[j])

(***************************************************************************)
(* The shape of a rollup table.                                            *)
(***************************************************************************)
\* The valid input rows dated in the latest month, and their dates.
LatestMonthRows(rows) ==
    LET latest == LatestMonth(rows)
    IN  {i \in 1..Len(rows) : YearMonthOf(rows[i]) = latest}
LatestMonthDates(rows) == {rows[i]["Date"] : i \in LatestMonthRows(rows)}
LatestMonthWeeks(rows) == {YearWeek(dt) : dt \in LatestMonthDates(rows)}
\* Table T built from the valid rows `rows` is: days daily rows of the
\* latest month, each date on as many rows as the input has for it or on
\* one row, newest first; then weeks week summary rows of weeks of the
\* latest month; then the summary of the latest month; then summaries of
\* earlier months, complete ones only, newest first; then TOTAL, and TOTAL
\* nowhere else.
HasShape(T, rows, days, weeks, one_row_per_input_row) ==
    LET month_at == days + weeks + 1
        latest == LatestMonth(rows)
        latest_rows == LatestMonthRows(rows)
        day_labels == {<<DayLabel(dt), dt>> : dt \in LatestMonthDates(rows)}
        week_labels == {WeekLabelOf(rows, wk) : wk \in LatestMonthWeeks(rows)}
        earlier_labels ==
            {<<MonthLabel(ym[1], ym[2]), ym>> :
                ym \in {m \in MonthsOf(rows) :
                           MonthLess(m, latest) /\ ~IsSuppressed(rows, m)}}
        day_at == {<<x[1], x[2][2]>> :
                      x \in {y \in (1..days) \X day_labels : T[y[1]][1] = y[2][1]}}
        month_after ==
            {<<x[1], x[2][2]>> :
                x \in {y \in ((month_at + 1)..(Len(T) - 1)) \X earlier_labels :
                          T[y[1]][1] = y[2][1]}}
    IN  /\ Len(T) >= month_at + 1
        /\ {p[1] : p \in day_at} = 1..days
        /\ \A p, q \in day_at : p[1] < q[1] => ~DateLess(p[2], q[2])
        /\ \A l \in day_labels :
              Cardinality({p \in day_at : p[2] = l[2]})
                 = (IF one_row_per_input_row
                    THEN Cardinality({i \in latest_rows : rows[i]["Date"] = l[2]})
                    ELSE 1)
        /\ \A i \in (days + 1)..(days + weeks) : T[i][1] \in week_labels
        /\ T[month_at][1] = MonthLabel(latest[1], latest[2])
        /\ {p[1] : p \in month_after} = (month_at + 1)..(Len(T) - 1)
        /\ \A p, q \in month_after : p[1] < q[1] => MonthLess(q[2], p[2])
        /\ T[Len(T)][1] = "TOTAL"
        /\ CountLabel(T, "TOTAL") = 1

\* C19 (as the code has it): a table of create_table_data is the daily rows
\* of the latest month, one per input row, newest first, then the summary
\* of the latest month, then the summaries of earlier complete months,
\* newest first, then TOTAL.  A table of create_supervisor_report has one
\* daily row per date of the latest month, and the week summary rows stand
\* between the daily rows and the summary of the latest month.
C19_RollupShape ==
    /\ \A d \in DOMAIN bd_tables :
          BdInput(d) # <<>> =>
             HasShape(bd_tables[d].table_data, BdInput(d),
                      Cardinality(LatestMonthRows(BdInput(d))), 0, TRUE)
    /\ \A s \in DOMAIN team_tables :
          TeamInput(s) # <<>> =>
             HasShape(team_tables[s].table_data, TeamInput(s),
                      Cardinality(LatestMonthDates(TeamInput(s))),
                      Cardinality(LatestMonthWeeks(TeamInput(s))), FALSE)

\* A team table and a dimension table, each with the summary of an earlier
\* month; the team has two input rows on one date of the latest month.
C19_Witness ==
    /\ \E s \in DOMAIN team_tables :
          LET rows == TeamInput(s)
              T == team_tables[s].table_data
          IN  /\ rows # <<>>
              /\ Cardinality(LatestMonthRows(rows)) > Cardinality(LatestMonthDates(rows))
              /\ Len(T) > Cardinality(LatestMonthDates(rows))
                             + Cardinality(LatestMonthWeeks(rows)) + 2
    /\ \E d \in DOMAIN bd_tables :
          /\ BdInput(d) # <<>>
          /\ Len(bd_tables[d].table_data)
                > Cardinality(LatestMonthRows(BdInput(d))) + 2

\* C19 as stated: every rollup table is the daily rows of the latest month,
\* one per input row, then the summary of the latest month, then summaries
\* of earlier complete months, then TOTAL.
C19_Original ==
    /\ \A d \in DOMAIN bd_tables :
          BdInput(d) # <<>> =>
             HasShape(bd_tables[d].table_data, BdInput(d),
                      Cardinality(LatestMonthRows(BdInput(d))), 0, TRUE)
    /\ \A s \in DOMAIN team_tables :
          TeamInput(s) # <<>> =>
             HasShape(team_tables[s].table_data, TeamInput(s),
                      Cardinality(LatestMonthRows(TeamInput(s))), 0, TRUE)

(***************************************************************************)
(* The place of the week summary rows in a team table.                     *)
(***************************************************************************)
\* For every week with a day of the latest month: the week, the place of its
\* summary row in table T, and the places of the first and of the last
\* daily row of a member day.
WeekPlaces(T, rows) ==
    LET place == {<<T[i][1], i>> : i \in 1..Len(T)}
        PlaceOf(label) == (CHOOSE p \in place : p[1] = label)[2]
        day_place == {<<YearWeek(dt), PlaceOf(DayLabel(dt))>> :
                         dt \in LatestMonthDates(rows)}
        Placed(wk) ==
            LET places == {p[2] : p \in {q \in day_place : q[1] = wk}}
            IN  <<wk, PlaceOf(WeekLabelOf(rows, wk)),
                  CHOOSE f \in places : \A g \in places : f <= g,
                  CHOOSE l \in places : \A g \in places : g <= l>>
    IN  {Placed(wk) : wk \in LatestMonthWeeks(rows)}

MonthPlace(T, rows) ==
    CHOOSE i \in 1..Len(T) :
        T[i][1] = MonthLabel(LatestMonth(rows)[1], LatestMonth(rows)[2])

\* C20: in a team table every week summary row stands after the daily row
\* of the last shown day of its week, the week summary rows stand in the
\* order in which the first day of each week is shown (newest week first),
\* and all of them stand before the summary row of the latest month.
C20_WeekRowsAfterDaysBeforeMonth ==
    \A s \in DOMAIN team_tables :
        LET rows == TeamInput(s)
            T == team_tables[s].table_data
        IN  rows # <<>> =>
               LET weeks == WeekPlaces(T, rows)
                   month == MonthPlace(T, rows)
               IN  /\ \A w \in weeks : w[4] < w[2] /\ w[2] < month
                   /\ \A v, w \in weeks :
                         /\ v[3] < w[3] => v[2] < w[2]
                         /\ v[3] < w[3] => DateLess(MaxDate(WeekDates(rows, w[1])),
                                                    MinDate(WeekDates(rows, v[1])))

\* A team table with the rows of two weeks of the latest month, the newer
\* week's summary row standing after a daily row of the older week.
C20_Witness ==
    \E s \in DOMAIN team_tables :
        LET rows == TeamInput(s)
            T == team_tables[s].table_data
        IN  /\ rows # <<>>
            /\ \E v, w \in WeekPlaces(T, rows) :
                  /\ v[3] < w[3]
                  /\ v[2] < w[2]
                  /\ w[4] < v[2]
                  /\ w[2] < MonthPlace(T, rows)

(***************************************************************************)
(* C21.  The member rows of a bucket and the routing of their values.      *)
(***************************************************************************)
\* The daily values a rollup summarises: for a dimension its valid rows,
\* for a team one row per date with the team's sum of every metric.
DailyOfDimension(rows) ==
    LET Each(r) == TRUE IN SelectSeq(rows, Each)
DailyOfTeam(rows) ==
    LET dates == SortedDates(DatesOf(rows))
        Each(r) == TRUE
        Day(date) ==
            LET members == RowsOnDate(rows, date)
            IN  [c \in {"Date"} \cup {ColumnAt(i) : i \in 1..Len(MetricColumns)} |->
                    IF c = "Date" THEN date ELSE SeqSum(Column(members, c))]
    IN  SelectSeq([k \in 1..Len(dates) |-> Day(dates[k])], Each)

\* Maximum for a gauge metric, sum for every other metric.
Routed(members, col) ==
    IF col \in GaugeColumns
    THEN SetMax({members[i][col] : i \in 1..Len(members)})
    ELSE SeqSum(Column(members, col))
RoutedRow(label, members) ==
    <<label>> \o [i \in 1..Len(MetricColumns) |->
                    format_number(Routed(members, ColumnAt(i)))]

\* The summary rows the buckets of the daily values call for: one per month,
\* one per ISO week when weeks is set, and TOTAL.
BucketRows(daily, weeks) ==
    LET InMonth(ym) == LET In(r) == YearMonthOf(r) = ym IN SelectSeq(daily, In)
    IN  {RoutedRow(MonthLabel(ym[1], ym[2]), InMonth(ym)) : ym \in MonthsOf(daily)}
        \cup {RoutedRow(WeekLabelOf(daily, wk), RowsInWeek(daily, wk)) :
                 wk \in IF weeks THEN WeeksOf(daily) ELSE {}}
        \cup {RoutedRow("TOTAL", daily)}
IsSummaryOf(T, daily, weeks) ==
    LET day_labels == {DayLabel(dt) : dt \in DatesOf(daily)}
        bucket_rows == BucketRows(daily, weeks)
    IN  \A i \in 1..Len(T) : T[i][1] \notin day_labels => T[i] \in bucket_rows

\* C21: every row of a dimension table or of a team table that is no daily
\* row is the summary of one bucket of the daily values (a month, in a team
\* table an ISO week, or the whole range): for DAU and Activate KOL the
\* maximum of the bucket's daily values, for every other metric their sum.
C21_GaugeMaxFlowSum ==
    /\ \A d \in DOMAIN bd_tables :
          BdInput(d) # <<>> =>
             IsSummaryOf(bd_tables[d].table_data, DailyOfDimension(BdInput(d)), FALSE)
    /\ \A s \in DOMAIN team_tables :
          TeamInput(s) # <<>> =>
             IsSummaryOf(team_tables[s].table_data, DailyOfTeam(TeamInput(s)), TRUE)

\* A team table with a week summary row, a month summary row and TOTAL, and
\* a dimension table with a month summary row and TOTAL, in each of which
\* Activate KOL is below the sum of the bucket's daily values.
C21_Witness ==
    LET Below(T, daily, label, members) ==
            /\ CountLabel(T, label) = 1
            /\ Len(members) >= 2
            /\ Routed(members, "Activate KOL")
                  < SeqSum(Column(members, "Activate KOL"))
    IN  /\ \E s \in DOMAIN team_tables :
              LET rows == TeamInput(s)
                  T == team_tables[s].table_data
              IN  /\ rows # <<>>
                  /\ Cardinality(Dimensions(rows)) = 2
                  /\ LET daily == DailyOfTeam(rows)
                         latest == LatestMonth(rows)
                         InLatest(r) == YearMonthOf(r) = latest
                     IN  /\ \E wk \in WeeksOf(daily) :
                               Below(T, daily, WeekLabelOf(daily, wk),
                                     RowsInWeek(daily, wk))
                         /\ Below(T, daily, MonthLabel(latest[1], latest[2]),
                                  SelectSeq(daily, InLatest))
                         /\ Below(T, daily, "TOTAL", daily)
        /\ \E d \in DOMAIN bd_tables :
              LET rows == BdInput(d)
                  T == bd_tables[d].table_data
              IN  /\ rows # <<>>
                  /\ LET latest == LatestMonth(rows)
                         InLatest(r) == YearMonthOf(r) = latest
                     IN  /\ Below(T, rows, MonthLabel(latest[1], latest[2]),
                                  SelectSeq(rows, InLatest))
                         /\ Below(T, rows, "TOTAL", rows)

(***************************************************************************)
(* C22.  The rows of the two aggregators.                                  *)
(***************************************************************************)
PairsOf(frame) == {<<frame[i].dimension, frame[i].date>> : i \in 1..Len(frame)}
\* The sub-agent identifiers among the records of one (dimension, date)
\* pair: the sub-agent cells that are not empty.
SubAgentsOf(frame, pair) ==
    {frame[i].kol : i \in {j \in 1..Len(frame) :
        /\ <<frame[j].dimension, frame[j].date>> = pair
        /\ frame[j].kol # Empty}}
TriplesOf(frame) ==
    {<<frame[i].kol, frame[i].dimension, frame[i].date>> :
        i \in {j \in 1..Len(frame) : frame[j].kol # Empty}}

\* aggregate_data returns one row per (dimension, date) pair of its input.
OneRowPerPair ==
    /\ Len(aggregated_df) = Cardinality(PairsOf(processed_df))
    /\ {<<aggregated_df[i]["Dimension"], aggregated_df[i]["Date"]>> :
           i \in 1..Len(aggregated_df)} = PairsOf(processed_df)
\* aggregate_data_by_kol returns one row per (sub-agent, dimension, date)
\* with a sub-agent, and no row has an 'Activate KOL' value.
OneRowPerTriple ==
    /\ Len(kol_aggregated_df) = Cardinality(TriplesOf(processed_df))
    /\ {<<kol_aggregated_df[i]["KOL"], kol_aggregated_df[i]["Dimension"],
          kol_aggregated_df[i]["Date"]>> : i \in 1..Len(kol_aggregated_df)}
          = TriplesOf(processed_df)
    /\ \A i \in 1..Len(kol_aggregated_df) :
          "Activate KOL" \notin DOMAIN kol_aggregated_df[i]

\* C22 as stated: aggregate_data returns one row per (dimension, date) pair
\* of its input, whose Activate KOL is the number of distinct sub-agent
\* identifiers among the pair's records; aggregate_data_by_kol returns one
\* row per (sub-agent, dimension, date) with a non-empty sub-agent, without
\* any Activate KOL value.
C22_Original ==
    /\ pc \in {"aggregated", "kol_aggregated"} =>
          /\ OneRowPerPair
          /\ \A i \in 1..Len(aggregated_df) :
                aggregated_df[i]["Activate KOL"] =
                   1000 * Cardinality(SubAgentsOf(processed_df,
                             <<aggregated_df[i]["Dimension"], aggregated_df[i]["Date"]>>))
    /\ pc = "kol_aggregated" => OneRowPerTriple

(***************************************************************************)
(* C23.  What a stage leaves of the collection it was given.               *)
(***************************************************************************)
\* The stage that has just run left the caller's collection as it was.
LeavesDf == df' = df
LeavesAgentData ==
    \A d \in (DOMAIN agent_datas') \ DOMAIN agent_datas :
        agent_datas'[d] = rows_of_dimension(aggregated_df, d)
LeavesSupervisorDf ==
    \A s \in (DOMAIN supervisor_dfs') \ DOMAIN supervisor_dfs :
        supervisor_dfs'[s] = rows_of_team(aggregated_df, s)
LeavesData == data' = data

\* C23 as stated: when process_raw_data, create_table_data,
\* create_supervisor_report or create_supervisors_daily_report returns, the
\* collection the caller passed has the columns and the values it had
\* before the call.
C23_Original ==
    [][LeavesDf /\ LeavesAgentData /\ LeavesSupervisorDf /\ LeavesData]_vars

(***************************************************************************)
(* C24.  The rollup of a dimension and the rows of the other dimensions.   *)
(***************************************************************************)
\* The aggregated frame with the rows of dimension d only.
OnlyDimension(d) ==
    LET Own(r) == r["Dimension"] = d IN SelectSeq(aggregated_df, Own)

RowsAssignedTo(s) ==
    LET Assigned(r) == supervisor_of(r["Dimension"]) = s
    IN  SelectSeq(aggregated_df, Assigned)
\* The teams for which main selects aggregated row i.
TeamsSelecting(i) ==
    {s \in group_by_supervisor(aggregated_df) :
        \E j \in 1..Len(rows_of_team(aggregated_df, s)) :
            rows_of_team(aggregated_df, s)[j] = aggregated_df[i]}

\* C25 as stated: in the team stage the rows main selects for a group are
\* exactly the rows of the dimensions group_by_supervisor assigns to it,
\* and every aggregated row is selected for exactly one group.
C25_Original ==
    pc \in {"team", "done"} =>
        /\ \A s \in group_by_supervisor(aggregated_df) :
              rows_of_team(aggregated_df, s) = RowsAssignedTo(s)
        /\ \A i \in 1..Len(aggregated_df) : Cardinality(TeamsSelecting(i)) = 1

(***************************************************************************)
(* C26.  The sign of the change rate.                                      *)
(***************************************************************************)
\* The produced text is the sign, then the magnitude of the rate of the
\* two numbers compared to one decimal (rounded down or up), then '%'.
StartsWithSign(text, sign) ==
    LET lower == (1000 * Abs(current.v - previous.v)) \div Abs(previous.v)
    IN  \E digits \in {OneDecimal(lower), OneDecimal(lower + 1)} :
            text = sign \o digits \o "%"

\* C26: after format_change_rate(current, previous) with current a number
\* and previous a non-zero number, negative ones included: the text starts
\* with '+' exactly if current > previous, with '-' exactly if
\* current < previous, and is '0%' exactly if they are equal.
C26_SignFollowsDifference ==
    (pc = "rated" /\ ~current.nan /\ ~previous.nan /\ previous.v # 0) =>
        /\ StartsWithSign(change_text, "+") <=> current.v > previous.v
        /\ StartsWithSign(change_text, "-") <=> current.v < previous.v
        /\ change_text = "0%" <=> current.v = previous.v

\* A rise from a negative previous to a less negative current, shown with
\* '+', and a fall between two negative values, shown with '-'.
C26_Witness ==
    /\ pc = "rated"
    /\ ~current.nan /\ ~previous.nan
    /\ previous.v < 0
    /\ current.v < 0
    /\ current.v > previous.v
    /\ StartsWithSign(change_text, "+")

=============================================================================
